---- MODULE Spec2Model ----
(***************************************************************************)
(* Model of the trading-bot engine of hooks/useTradingBot.ts: the React    *)
(* state `bots`/`markets`, the two interval callbacks (updatePortfolios,   *)
(* runTradingTurn) with the snapshots their closures capture, the          *)
(* validation pass and the live execution of accepted decisions.           *)
(*                                                                         *)
(* Conventions.  Time is counted in minutes.  A JavaScript value that the  *)
(* code only tests for truthiness is modelled by its falsy value when it   *)
(* is absent: size 0, leverage 0, stopLoss 0, takeProfit 0 stand for both  *)
(* the number 0 and a missing field, the symbol "" and the position id ""  *)
(* for a missing string.  A cooldown entry 0 is a missing entry (the code  *)
(* tests `cooldownEndTime &&`).  Quantities are integers counting units of *)
(* 10^-precision.                                                          *)
(***************************************************************************)
EXTENDS Integers, Sequences, FiniteSets, TLC

VARIABLES
    now,          \* Date.now(), in minutes
    bots,         \* React state `bots`: sequence of BotState records
    markets,      \* React state `markets`: symbol -> price (0: no entry)
    cooldowns,    \* the symbolCooldowns objects: reference -> (symbol -> expiry)
    turn,         \* runTradingTurn invocations: slot -> activation record
    refresh,      \* updatePortfolios invocations: slot -> activation record
    venueCalls,   \* history of the calls made to the venue (setLeverage, placeRealOrder)
    venue,        \* what the venue answers: bot id -> account snapshot and trade history
    isGloballyPaused,   \* the hook's argument isGloballyPaused
    scheduled,          \* turnIntervalRef / refreshIntervalRef hold a live interval
    initialBalanceRef,  \* initialBalanceRef.current: bot id -> recorded initial balance
    reset,              \* the resetBot invocation: its position, its bot id, the calls so far
    adjust,             \* a call of getAdjustedQuantity: its arguments and what it returns
    isLoading,          \* React state `isLoading`
    init                \* the invocation of initialize: its position and what it has fetched

vars == <<now, bots, markets, cooldowns, turn, refresh, venueCalls, venue,
          isGloballyPaused, scheduled, initialBalanceRef, reset, adjust, isLoading, init>>

----------------------------------------------------------------------------
(* Program constants *)

MINIMUM_TRADE_SIZE_USD == 50

\* 30 * 60 * 1000 ms, in minutes
SYMBOL_COOLDOWN_MS == 30

\* leverageLimits.get(symbol) ?? 25
DefaultMaxLeverage == 25

\* symbolPrecisions.get(symbol)?.quantityPrecision ?? 3
DefaultPrecision == 3

\* botLogs ... .slice(0, 50)
MaxBotLogs == 50

\* LIVE_BOT_INITIAL_BALANCE and PAPER_BOT_INITIAL_BALANCE of the constants
\* module, with the values the settings table is seeded with
LIVE_BOT_INITIAL_BALANCE == 950

PAPER_BOT_INITIAL_BALANCE == 10000

----------------------------------------------------------------------------
(* Bounds of the model *)

\* longest decision list a provider returns
MaxDecisions == 2

\* interval ticks (turn and refresh together) that fire in one run
MaxTicks == 2

\* the clock stops at this minute
MaxTime == 41

\* decision turns of the agent in the cooldown specification
MaxTurns == 3

----------------------------------------------------------------------------
(* Data *)

Symbols == {"BTCUSDT", "DOGEUSDT", "XRPUSDT"}

\* The table of the leverageLimits module (imported at line 11, its file is
\* not among the sources): one symbol with a configured limit, the others
\* without, so that both branches of `leverageLimits.get(symbol) ?? 25` occur.
leverageLimits == [s \in {"BTCUSDT"} |-> 50]

\* symbolPrecisions as fetched by getExchangeInfo: symbols with a
\* quantityPrecision of 0, 1 and 2; the others fall back to DefaultPrecision.
symbolPrecisions ==
    [s \in {"DOGEUSDT", "XRPUSDT", "ETHUSDT"} |->
        IF s = "DOGEUSDT" THEN 0 ELSE IF s = "XRPUSDT" THEN 1 ELSE 2]

Long == "LONG"
Short == "SHORT"
Close == "CLOSE"

IsDirectional(d) == d.action = Long \/ d.action = Short

Decision(a, s, z, l, p) ==
    [action |-> a, symbol |-> s, size |-> z, leverage |-> l,
     stopLoss |-> 0, takeProfit |-> 0, closePositionId |-> p]

\* a decision with its optional stopLoss and takeProfit prices
WithLegs(d, sl, tp) == [d EXCEPT !.stopLoss = sl, !.takeProfit = tp]

Note(k, i, v) == [kind |-> k, i |-> i, val |-> v]

Pow10(p) == IF p = 0 THEN 1 ELSE IF p = 1 THEN 10 ELSE IF p = 2 THEN 100 ELSE 1000

----------------------------------------------------------------------------
(* Validation pass of runTradingTurn *)

\* Rule: Minimum trade size.  `decision.size &&` makes size 0 pass.
BelowMinimum(d) ==
    IsDirectional(d) /\ d.size # 0 /\ d.size < MINIMUM_TRADE_SIZE_USD

\* Rule: Symbol Cooldown, read from the snapshot bot's symbolCooldowns object.
OnCooldownReversed(d, cd, t) ==
    /\ IsDirectional(d)
    /\ d.symbol # ""
    /\ cd[d.symbol] # 0
    /\ t > cd[d.symbol]

OnCooldown(d, cd, t) ==
    /\ IsDirectional(d)
    /\ d.symbol # ""
    /\ cd[d.symbol] # 0
    /\ t < cd[d.symbol]

MaxLeverageOf(s) ==
    IF s \in DOMAIN leverageLimits THEN leverageLimits[s] ELSE DefaultMaxLeverage

\* Rule: Adjust Leverage.  decision.leverage || 1, clamped for a directional
\* decision that names a symbol.
RequestedLeverage(d) == IF d.leverage = 0 THEN 1 ELSE d.leverage

NeedsClamp(d) ==
    /\ IsDirectional(d)
    /\ d.symbol # ""
    /\ RequestedLeverage(d) > MaxLeverageOf(d.symbol)

AdjustedLeverageUnclamped(d) == RequestedLeverage(d)

AdjustedLeverage(d) ==
    IF NeedsClamp(d) THEN MaxLeverageOf(d.symbol) ELSE RequestedLeverage(d)

\* decisions.forEach(...): the notes and the validatedDecisions, in order.
\* acc = [notes, validated]; i is the index of the decision in the list.
RECURSIVE ValidateFrom(_, _, _, _, _)
ValidateFrom(ds, i, cd, t, acc) ==
    IF i > Len(ds) THEN acc
    ELSE LET d == ds[i] IN
         IF BelowMinimum(d)
         THEN ValidateFrom(ds, i + 1, cd, t,
                  [acc EXCEPT !.notes = Append(@, Note("REJECTED_MIN", i, d.size))])
         ELSE IF OnCooldown(d, cd, t)
         THEN ValidateFrom(ds, i + 1, cd, t,
                  [acc EXCEPT !.notes = Append(@, Note("REJECTED_COOLDOWN", i, cd[d.symbol] - t))])
         ELSE ValidateFrom(ds, i + 1, cd, t,
                  [notes |-> IF NeedsClamp(d)
                             THEN Append(acc.notes, Note("NOTE_LEVERAGE", i, MaxLeverageOf(d.symbol)))
                             ELSE acc.notes,
                   validated |-> Append(acc.validated,
                                    [decision |-> d, adjustedLeverage |-> AdjustedLeverage(d), i |-> i])])

\* the notes and the accepted decisions collected newest first (unshift)
ValidateNewestFirst(ds, cd, t) ==
    LET v == ValidateFrom(ds, 1, cd, t, [notes |-> <<>>, validated |-> <<>>])
        Backwards(s) == [n \in 1..Len(s) |-> s[Len(s) + 1 - n]]
    IN [notes |-> Backwards(v.notes), validated |-> Backwards(v.validated)]

Validate(ds, cd, t) == ValidateFrom(ds, 1, cd, t, [notes |-> <<>>, validated |-> <<>>])

----------------------------------------------------------------------------
(* Live execution of one accepted decision *)

(* The arithmetic of `number`: IEEE-754 binary64, round to nearest, ties to
   even.  A value is m * 2^e with m a natural number of at most 53 bits, kept
   as its digits in base 2^13, least significant first, because a product of
   two values does not fit the integers of the model checker.  Only what
   getAdjustedQuantity needs is modelled: non-negative finite values, the
   quotient of two whole numbers, the product with a power of ten, the floor,
   and exact comparison.  No value here is subnormal or overflows. *)

\* bits of a significand
Mantissa == 53

\* bits of one digit of a natural number
LimbBits == 13
Limb == 2^LimbBits

\* the element of a set of one element.  A value that is used more than once
\* is bound as the element of such a set, { f(v) : v \in {e} }, so that it is
\* evaluated once wherever the operator is evaluated.
Only(S) == CHOOSE v \in S : TRUE

RECURSIVE Limbs(_)
Limbs(n) == IF n = 0 THEN <<>> ELSE <<n % Limb>> \o Limbs(n \div Limb)

RECURSIVE WholeFrom(_, _)
WholeFrom(x, i) == IF i > Len(x) THEN 0 ELSE x[i] + Limb * WholeFrom(x, i + 1)

\* the whole number of the digits x, below 2^31
Whole(x) == Only({ WholeFrom(v, 1) : v \in {x} })

RECURSIVE TopLimb(_, _)
TopLimb(x, i) == IF i = 0 \/ x[i] # 0 THEN i ELSE TopLimb(x, i - 1)

\* x without leading zero digits
Canonical(x) == Only({ SubSeq(v, 1, TopLimb(v, Len(v))) : v \in {x} })

RECURSIVE TimesFrom(_, _, _, _)
TimesFrom(x, i, f, carry) ==
    IF i > Len(x) THEN Limbs(carry)
    ELSE Only({ <<t % Limb>> \o TimesFrom(x, i + 1, f, t \div Limb) :
                t \in {x[i] * f + carry} })

\* x * f + carry, f a small number
TimesSmall(x, f, carry) == Only({ TimesFrom(v, 1, f, carry) : v \in {x} })

\* the digits from the top one down to digit i are divided by d, r is their
\* remainder and q their quotient
RECURSIVE DivFrom(_, _, _, _, _)
DivFrom(x, i, d, r, q) ==
    IF i = 0 THEN [q |-> q, r |-> r]
    ELSE Only({ DivFrom(x, i - 1, d, t % d, p) :
                t \in {r * Limb + x[i]}, p \in {<<(r * Limb + x[i]) \div d>> \o q} })

\* quotient and remainder of x by d, d a small number
DivMod(x, d) == Only({ DivFrom(v, Len(v), d, 0, <<>>) : v \in {x} })

LimbAt(x, i) == IF i <= Len(x) THEN x[i] ELSE 0

RECURSIVE SumFrom(_, _, _, _)
SumFrom(x, y, i, carry) ==
    IF i > Len(x) /\ i > Len(y) THEN Limbs(carry)
    ELSE Only({ <<t % Limb>> \o SumFrom(x, y, i + 1, t \div Limb) :
                t \in {LimbAt(x, i) + LimbAt(y, i) + carry} })

Sum(x, y) == Only({ SumFrom(v, w, 1, 0) : v \in {x}, w \in {y} })

RECURSIVE LessFrom(_, _, _)
LessFrom(x, y, i) ==
    /\ i > 0
    /\ \/ x[i] < y[i]
       \/ x[i] = y[i] /\ LessFrom(x, y, i - 1)

\* x < y for two natural numbers without leading zero digits
Below(x, y) ==
    Only({ Len(v) < Len(w) \/ (Len(v) = Len(w) /\ LessFrom(v, w, Len(v))) :
           v \in {x}, w \in {y} })

Zeros(k) == [n \in 1..k |-> 0]

\* x * 2^k
ShiftLeft(x, k) ==
    Only({ IF v = <<>> THEN v
           ELSE Zeros(k \div LimbBits) \o TimesSmall(v, 2^(k % LimbBits), 0) :
           v \in {x} })

\* x \div 2^k, and whether a bit that is set was dropped
ShiftRight(x, k) ==
    Only({ IF k \div LimbBits >= Len(v) THEN [q |-> <<>>, lost |-> v # <<>>]
           ELSE Only({ [q |-> Canonical(d.q),
                        lost |-> d.r # 0 \/ \E n \in 1..(k \div LimbBits) : v[n] # 0] :
                       d \in {DivMod(SubSeq(v, k \div LimbBits + 1, Len(v)),
                                     2^(k % LimbBits))} }) :
           v \in {x} })

RECURSIVE SmallBitLength(_)
SmallBitLength(n) == IF n = 0 THEN 0 ELSE 1 + SmallBitLength(n \div 2)

BitLength(x) ==
    Only({ IF v = <<>> THEN 0
           ELSE LimbBits * (Len(v) - 1) + SmallBitLength(v[Len(v)]) : v \in {x} })

Double(m, e) == [m |-> m, e |-> e]

Odd(x) == x # <<>> /\ x[1] % 2 = 1

\* keep are the bits that stay, guard is the first bit dropped, sticky tells
\* whether a later bit is set: up when above the half, or at it and keep is odd
RoundKept(keep, guard, sticky, e) ==
    IF ~(guard /\ (sticky \/ Odd(keep))) THEN Double(keep, e)
    ELSE Only({ IF BitLength(next) > Mantissa
                THEN Double(ShiftRight(next, 1).q, e + 1) ELSE Double(next, e) :
                next \in {Sum(keep, <<1>>)} })

\* the bits that stay are withGuard without its last bit, which is the guard
RoundGuarded(withGuard, sticky, e) ==
    Only({ RoundKept(keep, Odd(withGuard.q), sticky \/ withGuard.lost, e) :
           keep \in {ShiftRight(withGuard.q, 1).q} })

\* v * 2^e, a value of `bits` bits
RoundBits(v, bits, e, sticky) ==
    IF bits <= Mantissa THEN Double(v, e)
    ELSE Only({ RoundGuarded(withGuard, sticky, e + bits - Mantissa) :
                withGuard \in {ShiftRight(v, bits - Mantissa - 1)} })

\* m * 2^e, with sticky set when bits below m are already dropped, rounded to
\* the nearest value of 53 bits, a tie to the even one
Round(m, e, sticky) ==
    Only({ RoundBits(v, BitLength(v), e, sticky) : v \in {m} })

\* the bits by which n is shifted for the quotient by d to have 55 or 56 bits
QuotientShift(n, d) == Mantissa + 2 + SmallBitLength(d) - SmallBitLength(n)

\* n / d for two whole numbers n >= 0 and d > 0, as the operator `/` gives it
Quotient(n, d) ==
    Only({ Round(Canonical(q.q), -shift, q.r # 0) :
           q \in {DivMod(ShiftLeft(Limbs(n), QuotientShift(n, d)), d)},
           shift \in {QuotientShift(n, d)} })

\* x * f for a whole number f, as the operator `*` gives it
Times(x, f) == Only({ Round(TimesSmall(v.m, f, 0), v.e, FALSE) : v \in {x} })

\* Math.floor(x), x below 2^31
Floor(x) ==
    Only({ IF v.e >= 0 THEN Whole(ShiftLeft(v.m, v.e))
           ELSE Whole(ShiftRight(v.m, -v.e).q) : v \in {x} })

Min(a, b) == IF a < b THEN a ELSE b

\* the natural number x / 2^e, for e <= x.e
Aligned(x, e) == ShiftLeft(x.m, x.e - e)

\* x < y, exactly
Less(x, y) ==
    Only({ Below(Aligned(v, Min(v.e, w.e)), Aligned(w, Min(v.e, w.e))) :
           v \in {x}, w \in {y} })

\* x + y and x * f, exactly (not rounded: the real numbers the values stand for)
Plus(x, y) ==
    Only({ Double(Sum(Aligned(v, Min(v.e, w.e)), Aligned(w, Min(v.e, w.e))),
                  Min(v.e, w.e)) :
           v \in {x}, w \in {y} })

Exact(x, f) == Only({ Double(TimesSmall(v.m, f, 0), v.e) : v \in {x} })

\* symbolPrecisions.get(symbol)?.quantityPrecision ?? 3
PrecisionOf(s) ==
    IF s \in DOMAIN symbolPrecisions THEN symbolPrecisions[s] ELSE DefaultPrecision

\* Math.floor(rawQuantity * factor), factor = Math.pow(10, precision)
Units(p, q) == Only({ Floor(x) : x \in {Times(q, Pow10(p))} })

\* Math.floor(rawQuantity * factor) / factor
Adjusted(p, q) == Only({ Quotient(units, Pow10(p)) : units \in {Units(p, q)} })

\* getAdjustedQuantity(symbol, num / den): the returned quantity in units of
\* 10^-p, which determine it (it is Quotient(units, 10^p))
getAdjustedQuantity(s, num, den) ==
    Only({ Units(PrecisionOf(s), q) : q \in {Quotient(num, den)} })

\* markets.find(m => m.symbol === decision.symbol)
HasMarket(mk, s) == s \in DOMAIN mk /\ mk[s] # 0

Call(fn, b, s, side, type, q, ro, lev, ok, i, z) ==
    [fn |-> fn, bot |-> b, symbol |-> s, side |-> side, type |-> type,
     quantity |-> q, reduceOnly |-> ro, leverage |-> lev, ok |-> ok,
     i |-> i, size |-> z]

NoEffect == [notes |-> <<>>, calls |-> <<>>, cool |-> ""]

\* What the venue answers to the calls of one decision.
\* lev: setLeverage, open: the opening order, sl/tp: the protective orders,
\* close: the closing order ("gone": 'ReduceOnly Order is rejected').  The
\* answers to calls that a failure prevents are left at their default.
Outcome(lev, open, sl, tp, close) ==
    [lev |-> lev, open |-> open, sl |-> sl, tp |-> tp, close |-> close]

Outcomes ==
    { Outcome(TRUE, TRUE, TRUE, TRUE, "ok"),
      Outcome(FALSE, TRUE, TRUE, TRUE, "ok"),
      Outcome(TRUE, FALSE, TRUE, TRUE, "ok"),
      Outcome(TRUE, TRUE, FALSE, TRUE, "ok"),
      Outcome(TRUE, TRUE, TRUE, FALSE, "ok"),
      Outcome(TRUE, TRUE, FALSE, FALSE, "ok"),
      Outcome(TRUE, TRUE, TRUE, TRUE, "gone"),
      Outcome(TRUE, TRUE, TRUE, TRUE, "error") }

\* STAGE 2: the trade size after fitting it to the available margin.
ClampedSize(size, availableBalance) ==
    IF size > availableBalance THEN availableBalance ELSE size

\* the legs awaited one after the other: a rejected stop-loss order leaves
\* the take-profit order unsent
ProtectiveLegsInSequence(b, d, i, q, z, out) ==
    LET side == IF d.action = Long THEN "SELL" ELSE "BUY"
        sl == IF d.stopLoss # 0
              THEN <<Call("placeOrder", b, d.symbol, side, "STOP_MARKET", q, TRUE, 0, out.sl, i, z)>>
              ELSE <<>>
        tp == IF d.takeProfit # 0 /\ (d.stopLoss = 0 \/ out.sl)
              THEN <<Call("placeOrder", b, d.symbol, side, "TAKE_PROFIT_MARKET", q, TRUE, 0, out.tp, i, z)>>
              ELSE <<>>
        legs == sl \o tp
        name(n) == IF n = 1 /\ d.stopLoss # 0 THEN "SL" ELSE "TP"
    IN [calls |-> legs,
        notes |-> [n \in 1..Len(legs) |->
                     Note(IF legs[n].ok THEN "SUCCESS_" \o name(n) ELSE "ERROR_" \o name(n), i, 0)]]

\* the protective orders on the side of the opening order
ProtectiveLegsSameSide(b, d, i, q, z, out) ==
    LET side == IF d.action = Long THEN "BUY" ELSE "SELL"
        sl == IF d.stopLoss # 0
              THEN <<Call("placeOrder", b, d.symbol, side, "STOP_MARKET", q, TRUE, 0, out.sl, i, z)>>
              ELSE <<>>
        tp == IF d.takeProfit # 0
              THEN <<Call("placeOrder", b, d.symbol, side, "TAKE_PROFIT_MARKET", q, TRUE, 0, out.tp, i, z)>>
              ELSE <<>>
        legs == sl \o tp
        name(n) == IF n = 1 /\ d.stopLoss # 0 THEN "SL" ELSE "TP"
    IN [calls |-> legs,
        notes |-> [n \in 1..Len(legs) |->
                     Note(IF legs[n].ok THEN "SUCCESS_" \o name(n) ELSE "ERROR_" \o name(n), i, 0)]]

\* Stop-loss and take-profit legs: both orders are issued before either is
\* awaited (Promise.allSettled).
ProtectiveLegs(b, d, i, q, z, out) ==
    LET side == IF d.action = Long THEN "SELL" ELSE "BUY"
        sl == IF d.stopLoss # 0
              THEN <<Call("placeOrder", b, d.symbol, side, "STOP_MARKET", q, TRUE, 0, out.sl, i, z)>>
              ELSE <<>>
        tp == IF d.takeProfit # 0
              THEN <<Call("placeOrder", b, d.symbol, side, "TAKE_PROFIT_MARKET", q, TRUE, 0, out.tp, i, z)>>
              ELSE <<>>
        legs == sl \o tp
        \* i === 0 && decision.stopLoss ? 'Stop-Loss' : 'Take-Profit'
        name(n) == IF n = 1 /\ d.stopLoss # 0 THEN "SL" ELSE "TP"
    IN [calls |-> legs,
        notes |-> [n \in 1..Len(legs) |->
                     Note(IF legs[n].ok THEN "SUCCESS_" \o name(n) ELSE "ERROR_" \o name(n), i, 0)]]

\* a rejected opening order is noted and the protective orders go out all the same
ExecOpenLegsAnyway(bot, mk, vd, quantity, out) ==
    LET d == vd.decision
        i == vd.i
        lev == vd.adjustedLeverage
        availableBalance == bot.portfolio.balance
        tradeSize == ClampedSize(d.size, availableBalance)
        sizeNote == IF d.size > availableBalance
                    THEN <<Note("NOTE_SIZE", i, availableBalance)>> ELSE <<>>
        levCall == Call("setLeverage", bot.id, d.symbol, "", "", 0, FALSE, lev, out.lev, i, tradeSize)
        openCall == Call("placeOrder", bot.id, d.symbol,
                         IF d.action = Long THEN "BUY" ELSE "SELL",
                         "MARKET", quantity, FALSE, 0, out.open, i, tradeSize)
        legs == ProtectiveLegs(bot.id, d, i, quantity, tradeSize, out)
    IN  IF availableBalance < MINIMUM_TRADE_SIZE_USD
        THEN [NoEffect EXCEPT !.notes = <<Note("REJECTED_BALANCE", i, availableBalance)>>]
        ELSE IF tradeSize < MINIMUM_TRADE_SIZE_USD
        THEN [NoEffect EXCEPT !.notes = sizeNote \o <<Note("REJECTED_ADJUSTED", i, tradeSize)>>]
        ELSE IF ~out.lev
        THEN [NoEffect EXCEPT !.notes = sizeNote \o <<Note("EXEC_ERROR", i, 0)>>,
                              !.calls = <<levCall>>]
        ELSE IF quantity <= 0
        THEN [NoEffect EXCEPT !.notes = sizeNote \o <<Note("WARN_ZERO_QTY", i, 0)>>,
                              !.calls = <<levCall>>]
        ELSE [NoEffect EXCEPT
                 !.notes = sizeNote
                           \o <<Note(IF out.open THEN "SUCCESS_OPEN" ELSE "EXEC_ERROR", i, tradeSize)>>
                           \o legs.notes,
                 !.calls = <<levCall, openCall>> \o legs.calls]

IsZeroQuantityNever(quantity) == FALSE

\* if (quantity <= 0)
IsZeroQuantity(quantity) == quantity <= 0

\* The LONG/SHORT branch (lines 340-410); quantity is the order quantity of
\* lines 367-368, which no outcome of a call changes.
ExecOpen(bot, mk, vd, quantity, out) ==
    LET d == vd.decision
        i == vd.i
        lev == vd.adjustedLeverage
        availableBalance == bot.portfolio.balance
        tradeSize == ClampedSize(d.size, availableBalance)
        sizeNote == IF d.size > availableBalance
                    THEN <<Note("NOTE_SIZE", i, availableBalance)>> ELSE <<>>
        levCall == Call("setLeverage", bot.id, d.symbol, "", "", 0, FALSE, lev, out.lev, i, tradeSize)
        openCall == Call("placeOrder", bot.id, d.symbol,
                         IF d.action = Long THEN "BUY" ELSE "SELL",
                         "MARKET", quantity, FALSE, 0, out.open, i, tradeSize)
        legs == ProtectiveLegs(bot.id, d, i, quantity, tradeSize, out)
    IN  IF availableBalance < MINIMUM_TRADE_SIZE_USD
        THEN [NoEffect EXCEPT !.notes = <<Note("REJECTED_BALANCE", i, availableBalance)>>]
        ELSE IF tradeSize < MINIMUM_TRADE_SIZE_USD
        THEN [NoEffect EXCEPT !.notes = sizeNote \o <<Note("REJECTED_ADJUSTED", i, tradeSize)>>]
        ELSE IF ~out.lev
        THEN [NoEffect EXCEPT !.notes = sizeNote \o <<Note("EXEC_ERROR", i, 0)>>,
                              !.calls = <<levCall>>]
        ELSE IF IsZeroQuantity(quantity)
        THEN [NoEffect EXCEPT !.notes = sizeNote \o <<Note("WARN_ZERO_QTY", i, 0)>>,
                              !.calls = <<levCall>>]
        ELSE IF ~out.open
        THEN [NoEffect EXCEPT !.notes = sizeNote \o <<Note("EXEC_ERROR", i, 0)>>,
                              !.calls = <<levCall, openCall>>]
        ELSE [NoEffect EXCEPT !.notes = sizeNote \o <<Note("SUCCESS_OPEN", i, tradeSize)>> \o legs.notes,
                              !.calls = <<levCall, openCall>> \o legs.calls]

\* the venue's answer that the position is already gone starts the cooldown too
ExecCloseCoolsWhenGone(bot, vd, quantity, out) ==
    LET d == vd.decision
        i == vd.i
        found == {p \in bot.portfolio.positions : p.id = d.closePositionId}
    IN  IF found = {} THEN NoEffect
        ELSE LET posToClose == CHOOSE p \in found : TRUE
                 closeCall == Call("placeOrder", bot.id, posToClose.symbol,
                                   IF posToClose.type = Long THEN "SELL" ELSE "BUY",
                                   "MARKET", quantity, TRUE, 0, out.close = "ok", i, 0)
             IN  IF quantity <= 0 THEN NoEffect
                 ELSE IF out.close = "error"
                 THEN [NoEffect EXCEPT !.notes = <<Note("EXEC_ERROR", i, 0)>>, !.calls = <<closeCall>>]
                 ELSE [notes |-> <<Note(IF out.close = "gone" THEN "NOTE_GONE" ELSE "SUCCESS_CLOSE", i, 0)>>,
                       calls |-> <<closeCall>>,
                       cool |-> posToClose.symbol]

\* The CLOSE branch (lines 412-431) with the catch of lines 432-439; quantity
\* is the order quantity of lines 415-416.
ExecClose(bot, vd, quantity, out) ==
    LET d == vd.decision
        i == vd.i
        found == {p \in bot.portfolio.positions : p.id = d.closePositionId}
    IN  IF found = {} THEN NoEffect
        ELSE LET posToClose == CHOOSE p \in found : TRUE
                 closeCall == Call("placeOrder", bot.id, posToClose.symbol,
                                   IF posToClose.type = Long THEN "SELL" ELSE "BUY",
                                   "MARKET", quantity, TRUE, 0, out.close = "ok", i, 0)
             IN  IF quantity <= 0 THEN NoEffect
                 ELSE IF out.close = "gone"
                 THEN [NoEffect EXCEPT !.notes = <<Note("NOTE_GONE", i, 0)>>, !.calls = <<closeCall>>]
                 ELSE IF out.close = "error"
                 THEN [NoEffect EXCEPT !.notes = <<Note("EXEC_ERROR", i, 0)>>, !.calls = <<closeCall>>]
                 ELSE [notes |-> <<Note("SUCCESS_CLOSE", i, 0)>>,
                       calls |-> <<closeCall>>,
                       cool |-> posToClose.symbol]

\* One iteration of `for (const { decision, adjustedLeverage } of validatedDecisions)`.
ExecLive(bot, mk, vd, quantity, out) ==
    LET d == vd.decision IN
    IF IsDirectional(d) /\ HasMarket(mk, d.symbol) /\ d.size # 0 /\ d.symbol # ""
    THEN ExecOpen(bot, mk, vd, quantity, out)
    ELSE IF d.action = Close /\ d.closePositionId # ""
    THEN ExecClose(bot, vd, quantity, out)
    ELSE NoEffect

\* const rawQuantity = (tradeSize * adjustedLeverage) / market.price (line 367)
\* const rawQuantity = Math.abs((posToClose.size * posToClose.leverage) /
\* posToClose.entryPrice) (line 415), each adjusted by getAdjustedQuantity
OrderQuantity(bot, mk, vd) ==
    LET d == vd.decision
        found == {p \in bot.portfolio.positions : p.id = d.closePositionId}
    IN  IF IsDirectional(d) /\ HasMarket(mk, d.symbol)
        THEN getAdjustedQuantity(d.symbol,
                 ClampedSize(d.size, bot.portfolio.balance) * vd.adjustedLeverage,
                 mk[d.symbol])
        ELSE IF d.action = Close /\ found # {}
        THEN LET posToClose == CHOOSE p \in found : TRUE
             IN getAdjustedQuantity(posToClose.symbol,
                    posToClose.size * posToClose.leverage, posToClose.entryPrice)
        ELSE 0  \* neither line is reached

----------------------------------------------------------------------------
(* State *)

Real == "real"
Paper == "paper"

NoMarkets == [s \in Symbols |-> 0]

\* getMarketData() as the venue reports it
MarketData == [s \in Symbols |-> IF s = "BTCUSDT" THEN 90000 ELSE IF s = "DOGEUSDT" THEN 2 ELSE 0]

NoCooldowns == [s \in Symbols |-> 0]

Portfolio(bal, pos) == [balance |-> bal, pnl |-> 0, totalValue |-> bal, positions |-> pos]

\* a ValueHistoryPoint: { timestamp: Date.now(), value }
Point(t, v) == [timestamp |-> t, value |-> v]

\* createNewBot; symbolCooldowns holds the reference of the bot's cooldown object
Bot(id, mode, paused, pf, ref) ==
    [id |-> id, tradingMode |-> mode, isPaused |-> paused, isLoading |-> FALSE,
     portfolio |-> pf, orders |-> <<>>, botLogs |-> <<>>,
     valueHistory |-> <<Point(now, pf.totalValue)>>, realizedPnl |-> 0,
     symbolCooldowns |-> ref]

P1 == [id |-> "p1", symbol |-> "BTCUSDT", type |-> Long, size |-> 100, leverage |-> 10,
       entryPrice |-> 50000, pnl |-> 0]

\* an entry of the trade history (Order): the fields the hook reads
Order(s, pnl) == [symbol |-> s, pnl |-> pnl]

\* what getRealAccountState and getRealTradeHistory return for one bot
Account(pf, trades) == [portfolio |-> pf, trades |-> trades]

\* the resetBot invocation: idle, or awaiting fetchBotConfigs for bot `id`;
\* n counts the calls made, last is how the latest call ended
IdleReset == [pc |-> "idle", id |-> "", n |-> 0, last |-> ""]

\* a call of getAdjustedQuantity(rawQuantity, symbol) with rawQuantity the
\* quotient num / den: not made, made, or returned with `adjusted`
IdleAdjust ==
    [pc |-> "idle", symbol |-> "", num |-> 0, den |-> 1,
     rawQuantity |-> Double(<<>>, 0), adjusted |-> Double(<<>>, 0)]

\* the invocation of initialize: pc is where it stands; configs, initialBots
\* and pending (the live bots whose initial sync has not settled) are what it
\* holds, corrected are the bots as their callbacks return them, failed the
\* bots whose sync was rejected or timed out, timedOut the races that the
\* timer won
InitRecord(pc) ==
    [pc |-> pc, configs |-> <<>>, initialBots |-> <<>>, corrected |-> <<>>,
     pending |-> {}, failed |-> {}, timedOut |-> {}, precisions |-> FALSE]

\* initialize has returned
InitDone == InitRecord("done")

IdleTurn ==
    [pc |-> "idle", snap |-> <<>>, mk |-> NoMarkets, idx |-> 0, decisions |-> <<>>,
     error |-> FALSE, validated |-> <<>>, notes |-> <<>>, k |-> 0]

\* failed: the bots whose venue fetch rejected in this invocation (for the record)
IdleRefresh == [pc |-> "idle", snap |-> <<>>, md |-> NoMarkets, failed |-> {}]

\* slots for the invocations of the two interval callbacks
TurnIds == 1..MaxTicks
RefreshIds == 1..MaxTicks

Fired == Cardinality({t \in TurnIds : turn[t].pc # "idle"})
         + Cardinality({r \in RefreshIds : refresh[r].pc # "idle"})

BotIndex(bs, id) == CHOOSE n \in 1..Len(bs) : bs[n].id = id

HasBot(bs, id) == \E n \in 1..Len(bs) : bs[n].id = id

\* turn invocations that have started and not returned
InFlight(t) == turn[t].pc \notin {"idle", "done"}

----------------------------------------------------------------------------
(* runTradingTurn *)

\* the log without its bound
TakeAll(s, n) == s

Take(s, n) == IF Len(s) <= n THEN s ELSE SubSeq(s, 1, n)

NextBotWhateverItsPause(bs, i) == i

\* for (const bot of bots) { if (bot.isPaused) continue; ...: the index of the
\* first bot at or after i that gets a turn, Len + 1 when there is none
RECURSIVE NextUnpaused(_, _)
NextUnpaused(bs, i) ==
    IF i > Len(bs) \/ ~bs[i].isPaused THEN i ELSE NextUnpaused(bs, i + 1)

\* setBots(current => current.map(b => b.id === bot.id ? { ...b, isLoading: true } : b))
SetLoading(bs, id) ==
    [n \in 1..Len(bs) |-> IF bs[n].id = id THEN [bs[n] EXCEPT !.isLoading = TRUE] ELSE bs[n]]

\* the next bot's provider call goes out while the write of this one is pending
WriteBackDeferred(bs, upd) == bs

\* setBots(current => current.map(b => b.id === bot.id ? { ...updatedBotState, isLoading: false } : b))
WriteBack(bs, upd) ==
    [n \in 1..Len(bs) |-> IF bs[n].id = upd.id THEN [upd EXCEPT !.isLoading = FALSE] ELSE bs[n]]

\* The loop head, run without interruption up to `await bot.getDecision`:
\* the invocation record and the bots after entering the loop at index i.
EnterLoop(rec, bs, i) ==
    LET j == NextUnpaused(rec.snap, i) IN
    IF j > Len(rec.snap)
    THEN [rec |-> [rec EXCEPT !.pc = "done", !.idx = j], bots |-> bs]
    ELSE [rec |-> [rec EXCEPT !.pc = "await", !.idx = j],
          bots |-> SetLoading(bs, rec.snap[j].id)]

\* newLog, botLogs = [newLog, ...botLogs].slice(0, 50), the write-back, and
\* the next iteration of the loop up to its await.
EndOfBot(t, rec, bs) ==
    LET bot == rec.snap[rec.idx]
        newLog == [timestamp |-> now, decisions |-> rec.decisions,
                   notes |-> rec.notes, turn |-> t, error |-> rec.error]
        updatedBotState == [bot EXCEPT !.botLogs = Take(<<newLog>> \o @, MaxBotLogs)]
    IN EnterLoop(rec, WriteBack(bs, updatedBotState), rec.idx + 1)

\* setInterval(() => runTradingTurn(), TURN_INTERVAL_MS): the callback runs
\* with the bots and markets of the render it closes over.  `overlap` tells
\* whether the environment lets a tick fire during a running turn.
TurnStart(t, overlap) ==
    /\ scheduled
    /\ Len(bots) > 0
    /\ Fired < MaxTicks
    /\ turn[t].pc = "idle"
    /\ \A u \in TurnIds : u < t => turn[u].pc # "idle"
    /\ overlap \/ \A u \in TurnIds : ~InFlight(u)
    /\ LET e == EnterLoop([IdleTurn EXCEPT !.snap = bots, !.mk = markets], bots, 1)
       IN /\ turn' = [turn EXCEPT ![t] = e.rec]
          /\ bots' = e.bots
    /\ UNCHANGED <<now, markets, cooldowns, refresh, venueCalls, venue,
                   isGloballyPaused, scheduled, initialBalanceRef, reset, adjust, isLoading, init>>

\* const { prompt, decisions } = await bot.getDecision(...): the error field
\* of the result is not read.  Then the validation pass; in paper mode the
\* execution branch is empty and the write-back follows at once.
TurnDecide(t, res) ==
    /\ turn[t].pc = "await"
    /\ LET bot == turn[t].snap[turn[t].idx]
           v == Validate(res.decisions, cooldowns[bot.symbolCooldowns], now)
           rec == [turn[t] EXCEPT !.pc = "exec", !.decisions = res.decisions,
                                  !.error = res.error, !.validated = v.validated,
                                  !.notes = v.notes, !.k = 1]
       IN IF bot.tradingMode = Real
          THEN /\ turn' = [turn EXCEPT ![t] = rec]
               /\ UNCHANGED bots
          ELSE LET e == EndOfBot(t, rec, bots)
               IN /\ turn' = [turn EXCEPT ![t] = e.rec]
                  /\ bots' = e.bots
    /\ UNCHANGED <<now, markets, cooldowns, refresh, venueCalls, venue,
                   isGloballyPaused, scheduled, initialBalanceRef, reset, adjust, isLoading, init>>

\* the time, the engine's pause flag and the cooldown entry read at
\* submission time, kept with the call for the record
Stamp(c, t, cd) ==
    [call |-> c, turn |-> t, at |-> now, paused |-> isGloballyPaused,
     cooldownEnd |-> IF c.symbol \in Symbols THEN cd[c.symbol] ELSE 0]

RECURSIVE StampAll(_, _, _)
StampAll(cs, t, cd) ==
    IF cs = <<>> THEN <<>> ELSE <<Stamp(Head(cs), t, cd)>> \o StampAll(Tail(cs), t, cd)

CooldownEndAtClose(t) == t

\* Date.now() + SYMBOL_COOLDOWN_MS
CooldownEnd(t) == t + SYMBOL_COOLDOWN_MS

\* one iteration of the loop over validatedDecisions (real mode); outs are
\* the outcomes the venue's calls may have
TurnExec(t, outs) ==
    /\ turn[t].pc = "exec"
    /\ turn[t].k <= Len(turn[t].validated)
    /\ LET bot == turn[t].snap[turn[t].idx]
           ref == bot.symbolCooldowns
           vd == turn[t].validated[turn[t].k]
       IN \E quantity \in {OrderQuantity(bot, turn[t].mk, vd)}, out \in outs :
          LET r == ExecLive(bot, turn[t].mk, vd, quantity, out) IN
          /\ turn' = [turn EXCEPT ![t].k = @ + 1, ![t].notes = @ \o r.notes]
          /\ venueCalls' = venueCalls \o StampAll(r.calls, t, cooldowns[ref])
          \* updatedBotState.symbolCooldowns[symbol] = Date.now() + SYMBOL_COOLDOWN_MS
          /\ cooldowns' = IF r.cool = "" THEN cooldowns
                          ELSE [cooldowns EXCEPT ![ref][r.cool] = CooldownEnd(now)]
    /\ UNCHANGED <<now, bots, markets, refresh, venue,
                   isGloballyPaused, scheduled, initialBalanceRef, reset, adjust, isLoading, init>>

\* after the last accepted decision (real mode): log, write-back, next bot
TurnWrite(t) ==
    /\ turn[t].pc = "exec"
    /\ turn[t].k > Len(turn[t].validated)
    /\ LET e == EndOfBot(t, turn[t], bots)
       IN /\ turn' = [turn EXCEPT ![t] = e.rec]
          /\ bots' = e.bots
    /\ UNCHANGED <<now, markets, cooldowns, refresh, venueCalls, venue,
                   isGloballyPaused, scheduled, initialBalanceRef, reset, adjust, isLoading, init>>

\* the invocation has returned: its activation record is gone
TurnReturn(t) ==
    /\ turn[t].pc = "done"
    /\ turn' = [turn EXCEPT ![t] = IdleTurn]
    /\ UNCHANGED <<now, bots, markets, cooldowns, refresh, venueCalls, venue,
                   isGloballyPaused, scheduled, initialBalanceRef, reset, adjust, isLoading, init>>

\* Date.now() advances by dt minutes
Tick(dt) ==
    /\ now + dt <= MaxTime
    /\ now' = now + dt
    /\ UNCHANGED <<bots, markets, cooldowns, turn, refresh, venueCalls, venue,
                   isGloballyPaused, scheduled, initialBalanceRef, reset, adjust, isLoading, init>>

----------------------------------------------------------------------------
(* updatePortfolios *)

\* valueHistory ... .slice(-300)
MaxValueHistory == 300

\* the history without its bound
TakeLastAll(s, n) == s

TakeLast(s, n) == IF Len(s) <= n THEN s ELSE SubSeq(s, Len(s) - n + 1, Len(s))

\* setInterval(() => updatePortfolios(), REFRESH_INTERVAL_MS): closes over bots
RefreshStart(r) ==
    /\ scheduled
    /\ Len(bots) > 0
    /\ Fired < MaxTicks
    /\ refresh[r].pc = "idle"
    /\ \A u \in RefreshIds : u < r => refresh[u].pc # "idle"
    /\ refresh' = [refresh EXCEPT ![r] = [IdleRefresh EXCEPT !.pc = "market", !.snap = bots]]
    /\ UNCHANGED <<now, bots, markets, cooldowns, turn, venueCalls, venue,
                   isGloballyPaused, scheduled, initialBalanceRef, reset, adjust, isLoading, init>>

\* const marketData = await getMarketData(); if (empty) return; setMarkets(marketData)
RefreshMarket(r, md) ==
    /\ refresh[r].pc = "market"
    /\ IF md = NoMarkets
       THEN /\ refresh' = [refresh EXCEPT ![r].pc = "done"]
            /\ UNCHANGED markets
       ELSE /\ refresh' = [refresh EXCEPT ![r].pc = "fetch", ![r].md = md]
            /\ markets' = md
    /\ UNCHANGED <<now, bots, cooldowns, turn, venueCalls, venue,
                   isGloballyPaused, scheduled, initialBalanceRef, reset, adjust, isLoading, init>>

\* updatedOrders.reduce((acc, order) => acc + order.pnl, 0)
RECURSIVE SumOfPnl(_)
SumOfPnl(orders) ==
    IF orders = <<>> THEN 0 ELSE Head(orders).pnl + SumOfPnl(Tail(orders))

\* the pnl of the refresh before is added to
PositionPnlAccumulated(pos, md) ==
    LET currentPrice == IF HasMarket(md, pos.symbol) THEN md[pos.symbol] ELSE pos.entryPrice
        assetQuantity == (pos.size * pos.leverage) \div pos.entryPrice
    IN pos.pnl
       + (currentPrice - pos.entryPrice) * assetQuantity * (IF pos.type = Long THEN 1 ELSE -1)

\* Paper branch, one position: the price of the symbol's market entry, or the
\* entry price when there is none; pnl = (currentPrice - entryPrice) *
\* assetQuantity * (+1 | -1).  The positions of the model have an entry price
\* that divides size * leverage, so that assetQuantity is a whole number.
PositionPnl(pos, md) ==
    LET currentPrice == IF HasMarket(md, pos.symbol) THEN md[pos.symbol] ELSE pos.entryPrice
        assetQuantity == (pos.size * pos.leverage) \div pos.entryPrice
    IN (currentPrice - pos.entryPrice) * assetQuantity * (IF pos.type = Long THEN 1 ELSE -1)

RECURSIVE UnrealizedPnl(_, _)
UnrealizedPnl(ps, md) ==
    IF ps = {} THEN 0
    ELSE LET pos == CHOOSE x \in ps : TRUE
         IN PositionPnl(pos, md) + UnrealizedPnl(ps \ {pos}, md)

RECURSIVE TotalMarginUsed(_)
TotalMarginUsed(ps) ==
    IF ps = {} THEN 0
    ELSE LET pos == CHOOSE x \in ps : TRUE
         IN pos.size + TotalMarginUsed(ps \ {pos})

PaperTotalValueNoMargin(balance, totalMarginUsed, unrealizedPnl) ==
    balance + unrealizedPnl

\* const totalValue = portfolio.balance + totalMarginUsed + unrealizedPnl
PaperTotalValue(balance, totalMarginUsed, unrealizedPnl) ==
    balance + totalMarginUsed + unrealizedPnl

\* { ...portfolio, pnl: unrealizedPnl, totalValue, positions: updatedPositions }
PaperPortfolio(portfolio, md) ==
    LET unrealizedPnl == UnrealizedPnl(portfolio.positions, md)
        totalMarginUsed == TotalMarginUsed(portfolio.positions)
    IN [portfolio EXCEPT
           !.pnl = unrealizedPnl,
           !.totalValue = PaperTotalValue(portfolio.balance, totalMarginUsed, unrealizedPnl),
           !.positions = {[pos EXCEPT !.pnl = PositionPnl(pos, md)] : pos \in portfolio.positions}]

SyncedOrdersAppended(bot, acct) == bot.orders \o acct.trades

\* updatedOrders = await getRealTradeHistory(bot.id)
SyncedOrders(bot, acct) == acct.trades

\* the async callback of bots.map for one bot of the snapshot; acct is what
\* the venue returns for it (read in real mode only)
UpdatedBot(bot, md, acct) ==
    LET real == bot.tradingMode = Real
        updatedPortfolio == IF real THEN acct.portfolio ELSE PaperPortfolio(bot.portfolio, md)
        updatedOrders == IF real THEN SyncedOrders(bot, acct) ELSE bot.orders
        updatedRealizedPnl == IF real THEN SumOfPnl(updatedOrders) ELSE bot.realizedPnl
    IN [bot EXCEPT !.portfolio = updatedPortfolio,
                   !.valueHistory = TakeLast(Append(@, Point(now, updatedPortfolio.totalValue)),
                                            MaxValueHistory),
                   !.orders = updatedOrders,
                   !.realizedPnl = updatedRealizedPnl]

RecordedBalanceOverwritten(ref, id, reported) == reported

\* if (!initialBalanceRef.current.has(bot.id)) set(bot.id, LIVE_BOT_INITIAL_BALANCE):
\* the entry of bot id after the real branch has run for it; reported is the
\* balance of the account snapshot just fetched
RecordedBalance(ref, id, reported) ==
    IF id \in DOMAIN ref THEN ref[id] ELSE LIVE_BOT_INITIAL_BALANCE

\* initialBalanceRef.current after the callbacks of the bots in `synced` have run
InitialBalancesAfter(ref, synced) ==
    [id \in DOMAIN ref \cup synced |->
        IF id \in synced THEN RecordedBalance(ref, id, venue[id].portfolio.balance)
        ELSE ref[id]]

\* the real bots of a snapshot
RealBots(snap) == {snap[n].id : n \in {m \in 1..Len(snap) : snap[m].tradingMode = Real}}

\* await Promise.all(bots.map(...)); setBots(updatedBots).  `failed` are the
\* bots whose getRealAccountState / getRealTradeHistory call rejects: one
\* rejection rejects Promise.all, and setBots is not reached.  The callbacks
\* of the other bots have run, the initial balance record included.
RefreshFinish(r, failed) ==
    /\ refresh[r].pc = "fetch"
    /\ failed \subseteq RealBots(refresh[r].snap)
    /\ IF failed = {}
       THEN bots' = [n \in 1..Len(refresh[r].snap) |->
                        UpdatedBot(refresh[r].snap[n], refresh[r].md, venue[refresh[r].snap[n].id])]
       ELSE UNCHANGED bots
    /\ refresh' = [refresh EXCEPT ![r].pc = "done", ![r].failed = failed]
    /\ initialBalanceRef' = InitialBalancesAfter(initialBalanceRef, RealBots(refresh[r].snap) \ failed)
    /\ UNCHANGED <<now, markets, cooldowns, turn, venueCalls, venue,
                   isGloballyPaused, scheduled, reset, adjust, isLoading, init>>

----------------------------------------------------------------------------
(* The scheduler effect *)

\* the length of the list is not looked at
SchedulesAnyList(paused, n) == ~paused

SchedulesEvenWhenPaused(paused, n) == n > 0

\* if (isGloballyPaused || bots.length === 0 || isLoading) { clear; return }:
\* whether the effect goes on to start the two intervals (isLoading is false
\* once initialization is over)
Schedules(paused, n) == ~paused /\ n > 0

\* The hook is rendered with another value of isGloballyPaused: the cleanup
\* of the previous effect clears both intervals and the effect runs again.
\* When it schedules, it calls updatePortfolios() at once (line 460) and
\* starts the refresh and the turn interval.
SetGloballyPaused(p) ==
    /\ p # isGloballyPaused
    /\ isGloballyPaused' = p
    /\ IF Schedules(p, Len(bots))
       THEN /\ Fired < MaxTicks
            /\ \E r \in RefreshIds :
                 /\ refresh[r].pc = "idle"
                 /\ \A u \in RefreshIds : u < r => refresh[u].pc # "idle"
                 /\ refresh' = [refresh EXCEPT
                                   ![r] = [IdleRefresh EXCEPT !.pc = "market", !.snap = bots]]
            /\ scheduled' = TRUE
       ELSE /\ scheduled' = FALSE
            /\ UNCHANGED refresh
    /\ UNCHANGED <<now, bots, markets, cooldowns, turn, venueCalls, venue,
                   initialBalanceRef, reset, adjust, isLoading, init>>

----------------------------------------------------------------------------
(* resetBot *)

\* createNewBot(config.id, ..., config.mode); ref is the new symbolCooldowns object
createNewBot(id, mode, ref) ==
    LET initialBalance == IF mode = Real THEN LIVE_BOT_INITIAL_BALANCE
                          ELSE PAPER_BOT_INITIAL_BALANCE
    IN Bot(id, mode, FALSE, Portfolio(initialBalance, {}), ref)

ResetRefusesNoBot(bs, id) == FALSE

\* botToReset && botToReset.tradingMode === 'real'
ResetRefuses(bs, id) == \E n \in 1..Len(bs) : bs[n].id = id /\ bs[n].tradingMode = Real

\* calls of resetBot in a behaviour
MaxResets == 2

\* resetBot(botId) up to `await fetchBotConfigs()`; confirmed is the answer
\* to window.confirm
ResetCall(id, confirmed) ==
    /\ reset.pc = "idle"
    /\ reset.n < MaxResets
    /\ reset' = IF ResetRefuses(bots, id)
                THEN [pc |-> "idle", id |-> id, n |-> reset.n + 1, last |-> "refused"]
                ELSE IF ~confirmed
                THEN [pc |-> "idle", id |-> id, n |-> reset.n + 1, last |-> "cancelled"]
                ELSE [pc |-> "fetch", id |-> id, n |-> reset.n + 1, last |-> ""]
    /\ UNCHANGED <<now, bots, markets, cooldowns, turn, refresh, venueCalls, venue,
                   isGloballyPaused, scheduled, initialBalanceRef, adjust, isLoading, init>>

\* resetBot after fetchBotConfigs has answered; mode is config.mode, or "" when
\* there is no config for botId.  The updater of setBots runs on the current list.
ResetFinish(mode) ==
    /\ reset.pc = "fetch"
    /\ IF mode = ""
       THEN /\ reset' = [reset EXCEPT !.pc = "idle", !.last = "notfound"]
            /\ UNCHANGED <<bots, cooldowns, initialBalanceRef>>
       ELSE LET ref == Cardinality(DOMAIN cooldowns) + 1
            IN /\ reset' = [reset EXCEPT !.pc = "idle", !.last = "reset"]
               /\ bots' = [n \in 1..Len(bots) |->
                             IF bots[n].id = reset.id
                             THEN createNewBot(reset.id, mode, ref) ELSE bots[n]]
               /\ IF HasBot(bots, reset.id)
                  THEN /\ cooldowns' = [x \in DOMAIN cooldowns \cup {ref} |->
                                          IF x = ref THEN NoCooldowns ELSE cooldowns[x]]
                       /\ initialBalanceRef' =
                              [x \in DOMAIN initialBalanceRef \ {reset.id} |->
                                  initialBalanceRef[x]]
                  ELSE UNCHANGED <<cooldowns, initialBalanceRef>>
    /\ UNCHANGED <<now, markets, turn, refresh, venueCalls, venue,
                   isGloballyPaused, scheduled, adjust, isLoading, init>>

\* the venue's account of a bot changes with a fill: its trade history grows
VenueMoves(id, acct) ==
    /\ id \in DOMAIN venue
    /\ Len(acct.trades) > Len(venue[id].trades)
    /\ venue' = [venue EXCEPT ![id] = acct]
    /\ UNCHANGED <<now, bots, markets, cooldowns, turn, refresh, venueCalls,
                   isGloballyPaused, scheduled, initialBalanceRef, reset, adjust, isLoading, init>>

----------------------------------------------------------------------------
(* initialize *)

\* one entry of what fetchBotConfigs returns
Config(id, mode, paused) == [id |-> id, mode |-> mode, isPaused |-> paused]

HasConfig(configs, id) == \E n \in 1..Len(configs) : configs[n].id = id

ConfigOf(configs, id) == configs[CHOOSE n \in 1..Len(configs) : configs[n].id = id]

\* savedState.bots.map(...).filter(bot => bot !== null): the saved bots that
\* have a config, with the mode and the pause flag of the config
Resumed(configs, saved) ==
    LET kept == SelectSeq(saved, LAMBDA b : HasConfig(configs, b.id))
    IN [n \in 1..Len(kept) |->
          [kept[n] EXCEPT !.tradingMode = ConfigOf(configs, kept[n].id).mode,
                          !.isPaused = ConfigOf(configs, kept[n].id).isPaused]]

\* botConfigs.map(c => createNewBot(...)) with the pause flag of the config
Fresh(configs) ==
    [n \in 1..Len(configs) |->
        [createNewBot(configs[n].id, configs[n].mode, n) EXCEPT
            !.isPaused = configs[n].isPaused]]

\* lines 157-181
InitialBots(configs, saved) ==
    IF Len(saved) > 0 THEN Resumed(configs, saved) ELSE Fresh(configs)

CorrectedKeepsLocal(bot, acct) == bot

\* lines 202-217: the bot after a successful initial sync
Corrected(bot, acct) ==
    [bot EXCEPT !.portfolio = acct.portfolio,
                !.orders = acct.trades,
                !.realizedPnl = SumOfPnl(acct.trades),
                !.valueHistory = <<Point(now, acct.portfolio.totalValue)>>]

\* the scheduler effect after setBots / setIsLoading(false): with agents and
\* without a global pause the intervals start and updatePortfolios is called
\* at once on the new list
AfterInitialize(bs) ==
    IF Schedules(isGloballyPaused, Len(bs))
    THEN /\ scheduled' = TRUE
         /\ refresh' = [refresh EXCEPT
                           ![1] = [IdleRefresh EXCEPT !.pc = "market", !.snap = bs]]
    ELSE UNCHANGED <<scheduled, refresh>>

\* setBots(liveCorrectedBots); setIsLoading(false)
InitFinish(rec, bs) ==
    /\ bots' = bs
    /\ isLoading' = FALSE
    /\ init' = [rec EXCEPT !.pc = "done"]
    /\ AfterInitialize(bs)

\* the catch of lines 230-236 and the return of lines 147-152:
\* setIsLoading(false); setBots([])
InitGivesUp(rec) ==
    /\ bots' = <<>>
    /\ isLoading' = FALSE
    /\ init' = [rec EXCEPT !.pc = "done"]
    /\ UNCHANGED <<scheduled, refresh>>

\* initialize() up to `await Promise.race([getExchangeInfo(), timeout])`
InitStart(configured) ==
    /\ init.pc = "start"
    /\ IF ~configured
       THEN /\ isLoading' = FALSE
            /\ init' = [init EXCEPT !.pc = "done"]
       ELSE /\ init' = [init EXCEPT !.pc = "exchangeInfo"]
            /\ UNCHANGED isLoading
    /\ UNCHANGED <<now, bots, markets, cooldowns, turn, refresh, venueCalls, venue,
                   isGloballyPaused, scheduled, initialBalanceRef, reset, adjust>>

\* getExchangeInfo() resolves or rejects before the timer; then up to
\* `await fetchBotConfigs()`
ExchangeInfoSettles(ok) ==
    /\ init.pc = "exchangeInfo"
    /\ init' = [init EXCEPT !.pc = "configs", !.precisions = ok]
    /\ UNCHANGED <<now, bots, markets, cooldowns, turn, refresh, venueCalls, venue,
                   isGloballyPaused, scheduled, initialBalanceRef, reset, adjust,
                   isLoading>>

\* no timer races getExchangeInfo()
ExchangeInfoNoTimer ==
    /\ init.pc = "exchangeInfo"
    /\ FALSE
    /\ UNCHANGED vars

\* the timer of 3000 ms rejects the race
ExchangeInfoTimeout ==
    /\ init.pc = "exchangeInfo"
    /\ init' = [init EXCEPT !.pc = "configs", !.timedOut = @ \cup {"exchangeInfo"}]
    /\ UNCHANGED <<now, bots, markets, cooldowns, turn, refresh, venueCalls, venue,
                   isGloballyPaused, scheduled, initialBalanceRef, reset, adjust,
                   isLoading>>

\* fetchBotConfigs() has answered ([] also when its requests failed); then up
\* to `await getArenaState()`
ConfigsArrive(configs) ==
    /\ init.pc = "configs"
    /\ IF configs = <<>>
       THEN /\ isLoading' = FALSE
            /\ bots' = <<>>
            /\ init' = [init EXCEPT !.pc = "done"]
       ELSE /\ init' = [init EXCEPT !.pc = "saved", !.configs = configs]
            /\ UNCHANGED <<bots, isLoading>>
    /\ UNCHANGED <<now, markets, cooldowns, turn, refresh, venueCalls, venue,
                   isGloballyPaused, scheduled, initialBalanceRef, reset, adjust>>

\* the bots of a list whose callback awaits the initial sync
LiveBots(bs) == {bs[n].id : n \in {m \in 1..Len(bs) : bs[m].tradingMode = Real}}

PaperBots(bs) == {bs[n].id : n \in {m \in 1..Len(bs) : bs[m].tradingMode = Paper}}

\* getArenaState() has answered with the saved bots (none: no saved state);
\* initialBots is built and the callbacks of initialBots.map run up to their
\* first await: a simulated bot's callback returns, a live bot's awaits the
\* race of its sync against the timer.  heap holds the saved symbolCooldowns.
SavedStateArrives(saved, heap) ==
    /\ init.pc = "saved"
    /\ LET initialBots == InitialBots(init.configs, saved)
           rec == [init EXCEPT !.initialBots = initialBots,
                               !.corrected = initialBots,
                               !.pending = LiveBots(initialBots)]
       IN /\ cooldowns' = heap
          /\ initialBalanceRef' =
                [id \in DOMAIN initialBalanceRef \cup PaperBots(initialBots) |->
                    IF id \in PaperBots(initialBots) THEN PAPER_BOT_INITIAL_BALANCE
                    ELSE initialBalanceRef[id]]
          /\ IF rec.pending = {}
             THEN InitFinish(rec, initialBots)
             ELSE /\ init' = [rec EXCEPT !.pc = "sync"]
                  /\ UNCHANGED <<bots, isLoading, scheduled, refresh>>
    /\ UNCHANGED <<now, markets, turn, venueCalls, venue,
                   isGloballyPaused, reset, adjust>>

\* getArenaState() rejects: the outer catch
SavedStateFails ==
    /\ init.pc = "saved"
    /\ InitGivesUp(init)
    /\ UNCHANGED <<now, markets, cooldowns, turn, venueCalls, venue,
                   isGloballyPaused, initialBalanceRef, reset, adjust>>

\* the race of one live bot ends: "ok", the venue answered both calls before
\* the timer; "rejected", one of the calls was rejected; "timeout", the timer
\* of 5000 ms fired first.  Promise.all resolves with the last of the bots'
\* callbacks, and initialize goes on to setBots(liveCorrectedBots) and
\* setIsLoading(false).
SyncEnds(id, how) ==
    /\ init.pc = "sync"
    /\ id \in init.pending
    /\ LET n == BotIndex(init.corrected, id)
           rec == [init EXCEPT
                      !.pending = @ \ {id},
                      !.failed = IF how = "ok" THEN @ ELSE @ \cup {id},
                      !.timedOut = IF how = "timeout" THEN @ \cup {id} ELSE @,
                      !.corrected[n] = IF how = "ok" THEN Corrected(@, venue[id]) ELSE @]
       IN /\ initialBalanceRef' =
                [x \in DOMAIN initialBalanceRef \cup {id} |->
                    IF x = id THEN LIVE_BOT_INITIAL_BALANCE ELSE initialBalanceRef[x]]
          /\ IF rec.pending = {}
             THEN InitFinish(rec, rec.corrected)
             ELSE /\ init' = rec
                  /\ UNCHANGED <<bots, isLoading, scheduled, refresh>>
    /\ UNCHANGED <<now, markets, cooldowns, turn, venueCalls, venue,
                   isGloballyPaused, reset, adjust>>

\* Promise.all([getRealAccountState, getRealTradeHistory]) settles first
SyncSettles(id, ok) == SyncEnds(id, IF ok THEN "ok" ELSE "rejected")

\* new Promise((_, reject) => setTimeout(() => reject(...), 5000)) wins
SyncTimeout(id) == SyncEnds(id, "timeout")

----------------------------------------------------------------------------
(* Inputs *)

Result(ds, err) == [decisions |-> ds, error |-> err]

\* what a decision provider returns in the engine specification
EngineResults ==
    { Result(<<>>, TRUE),
      Result(<<Decision(Long, "BTCUSDT", 100, 60, "")>>, FALSE),
      Result(<<Decision(Close, "", 0, 0, "p1")>>, FALSE) }

\* what the venue answers in the engine specification
EngineOutcomes ==
    { Outcome(TRUE, TRUE, TRUE, TRUE, "ok"),
      Outcome(TRUE, FALSE, TRUE, TRUE, "error") }

\* the decisions of the single-turn specification
TurnDecisions ==
    { Decision(Long, "BTCUSDT", z, 60, "") : z \in {0, 49, 100} }
    \cup { Decision(Long, "BTCUSDT", 100, 0, ""),
           Decision(Short, "DOGEUSDT", 100, 30, ""),
           Decision(Long, "XRPUSDT", 100, 30, ""),
           Decision(Long, "", 100, 60, ""),
           Decision(Close, "", 0, 0, "p1"),
           Decision(Close, "", 0, 0, "p9") }

SeqsUpTo(S, n) == UNION {[1..m -> S] : m \in 0..n}

TurnResults ==
    {Result(ds, FALSE) : ds \in SeqsUpTo(TurnDecisions, MaxDecisions)}
    \cup {Result(<<>>, TRUE)}

Balances == {30, 80, 200}

----------------------------------------------------------------------------
(* Specifications *)

\* The engine after initialization: two agents, no market data fetched yet.
Init ==
    /\ now = 0
    /\ \E paused \in BOOLEAN :
         bots = << Bot("b1", Real, FALSE, Portfolio(200, {P1}), 1),
                   Bot("b2", Paper, paused, Portfolio(80, {}), 2) >>
    /\ markets = NoMarkets
    /\ cooldowns = [ref \in {1, 2} |-> NoCooldowns]
    /\ turn = [t \in TurnIds |-> IdleTurn]
    /\ refresh = [r \in RefreshIds |-> IdleRefresh]
    /\ venueCalls = <<>>
    /\ venue = [id \in {"b1", "b2"} |->
                  Account(IF id = "b1" THEN Portfolio(200, {P1}) ELSE Portfolio(80, {}), <<>>)]
    /\ isGloballyPaused = FALSE
    /\ scheduled = TRUE
    /\ initialBalanceRef = [id \in {"b1", "b2"} |->
                              IF id = "b1" THEN LIVE_BOT_INITIAL_BALANCE
                              ELSE PAPER_BOT_INITIAL_BALANCE]
    /\ reset = IdleReset
    /\ adjust = IdleAdjust
    /\ isLoading = FALSE
    /\ init = InitDone

Next ==
    \/ \E t \in TurnIds : TurnStart(t, TRUE)
    \/ \E t \in TurnIds, res \in EngineResults : TurnDecide(t, res)
    \/ \E t \in TurnIds : TurnExec(t, EngineOutcomes)
    \/ \E t \in TurnIds : TurnWrite(t)
    \/ \E r \in RefreshIds : RefreshStart(r)
    \/ \E r \in RefreshIds, md \in {MarketData, NoMarkets} : RefreshMarket(r, md)
    \/ \E r \in RefreshIds, failed \in SUBSET {"b1", "b2"} : RefreshFinish(r, failed)

Spec == Init /\ [][Next]_vars

\* The engine when every turn finishes within the turn interval: a turn tick
\* fires only while no turn is in flight.  Refresh ticks fire at any time.
NextSerial ==
    \/ \E t \in TurnIds : TurnStart(t, FALSE)
    \/ \E t \in TurnIds, res \in EngineResults : TurnDecide(t, res)
    \/ \E t \in TurnIds : TurnExec(t, EngineOutcomes)
    \/ \E t \in TurnIds : TurnWrite(t)
    \/ \E r \in RefreshIds : RefreshStart(r)
    \/ \E r \in RefreshIds, md \in {MarketData, NoMarkets} : RefreshMarket(r, md)
    \/ \E r \in RefreshIds, failed \in SUBSET {"b1", "b2"} : RefreshFinish(r, failed)

SpecSerial == Init /\ [][NextSerial]_vars

\* The engine with every combination of the two agents' pause flags (the
\* flags come from the configuration read at initialization), both agents
\* live, the first holding a position.
InitPause ==
    /\ now = 0
    /\ \E p1 \in BOOLEAN, p2 \in BOOLEAN :
         bots = << Bot("b1", Real, p1, Portfolio(200, {P1}), 1),
                   Bot("b2", Real, p2, Portfolio(80, {}), 2) >>
    /\ markets = NoMarkets
    /\ cooldowns = [ref \in {1, 2} |-> NoCooldowns]
    /\ turn = [t \in TurnIds |-> IdleTurn]
    /\ refresh = [r \in RefreshIds |-> IdleRefresh]
    /\ venueCalls = <<>>
    /\ venue = [id \in {"b1", "b2"} |->
                  Account(IF id = "b1" THEN Portfolio(210, {P1}) ELSE Portfolio(75, {}), <<>>)]
    /\ isGloballyPaused = FALSE
    /\ scheduled = TRUE
    /\ initialBalanceRef = [id \in {"b1", "b2"} |-> LIVE_BOT_INITIAL_BALANCE]
    /\ reset = IdleReset
    /\ adjust = IdleAdjust
    /\ isLoading = FALSE
    /\ init = InitDone

SpecPause == InitPause /\ [][NextSerial]_vars

\* The engine of one live agent whose user pauses and resumes it.
InitSched ==
    /\ now = 0
    /\ bots = << Bot("b1", Real, FALSE, Portfolio(200, {P1}), 1) >>
    /\ markets = NoMarkets
    /\ cooldowns = [ref \in {1} |-> NoCooldowns]
    /\ turn = [t \in TurnIds |-> IdleTurn]
    /\ refresh = [r \in RefreshIds |-> IdleRefresh]
    /\ venueCalls = <<>>
    /\ venue = [id \in {"b1"} |-> Account(Portfolio(210, {P1}), <<>>)]
    /\ isGloballyPaused = FALSE
    /\ scheduled = TRUE
    /\ initialBalanceRef = [id \in {"b1"} |-> LIVE_BOT_INITIAL_BALANCE]
    /\ reset = IdleReset
    /\ adjust = IdleAdjust
    /\ isLoading = FALSE
    /\ init = InitDone

NextSched ==
    \/ \E p \in BOOLEAN : SetGloballyPaused(p)
    \/ \E t \in TurnIds : TurnStart(t, TRUE)
    \/ \E t \in TurnIds, res \in EngineResults : TurnDecide(t, res)
    \/ \E t \in TurnIds : TurnExec(t, EngineOutcomes)
    \/ \E t \in TurnIds : TurnWrite(t)
    \/ \E r \in RefreshIds : RefreshStart(r)
    \/ \E r \in RefreshIds, md \in {MarketData, NoMarkets} : RefreshMarket(r, md)
    \/ \E r \in RefreshIds, failed \in SUBSET {"b1"} : RefreshFinish(r, failed)

SpecSched == InitSched /\ [][NextSched]_vars

\* One decision turn of one live agent whose decisions carry stop-loss and
\* take-profit prices, or one of them, or neither, under every venue answer.
LegsDecisions ==
    { WithLegs(Decision(Long, "BTCUSDT", 100, 10, ""), sl, tp) :
        sl \in {0, 85000}, tp \in {0, 99000} }
    \cup { WithLegs(Decision(Short, "DOGEUSDT", 60, 5, ""), sl, tp) :
             sl \in {0, 3}, tp \in {0, 1} }

LegsResults == {Result(ds, FALSE) : ds \in SeqsUpTo(LegsDecisions, 2)}

InitLegs ==
    /\ now = 0
    /\ bots = << Bot("b1", Real, FALSE, Portfolio(200, {}), 1) >>
    /\ markets = MarketData
    /\ cooldowns = [ref \in {1} |-> NoCooldowns]
    /\ turn = [t \in TurnIds |-> IdleTurn]
    /\ refresh = [r \in RefreshIds |-> IdleRefresh]
    /\ venueCalls = <<>>
    /\ venue = [id \in {"b1"} |-> Account(bots[1].portfolio, <<>>)]
    /\ isGloballyPaused = FALSE
    /\ scheduled = TRUE
    /\ initialBalanceRef = [id \in {"b1"} |-> LIVE_BOT_INITIAL_BALANCE]
    /\ reset = IdleReset
    /\ adjust = IdleAdjust
    /\ isLoading = FALSE
    /\ init = InitDone

NextLegs ==
    \/ TurnStart(1, FALSE)
    \/ \E res \in LegsResults : TurnDecide(1, res)
    \/ TurnExec(1, Outcomes)
    \/ TurnWrite(1)

SpecLegs == InitLegs /\ [][NextLegs]_vars

\* Refresh and reset: a live bot and a paper bot that holds two positions;
\* refresh ticks, one at a time, with changing prices, a venue whose account
\* changes between ticks, and resets of either bot into either mode.
D1 == [id |-> "d1", symbol |-> "DOGEUSDT", type |-> Long, size |-> 100, leverage |-> 5,
       entryPrice |-> 2, pnl |-> 0]

D2 == [id |-> "d2", symbol |-> "DOGEUSDT", type |-> Short, size |-> 60, leverage |-> 5,
       entryPrice |-> 3, pnl |-> 0]

RefreshMarkets ==
    { [MarketData EXCEPT !["DOGEUSDT"] = p] : p \in {1, 3} }

VenueAccounts ==
    { Account(Portfolio(210, {P1}), <<Order("BTCUSDT", 10)>>),
      Account(Portfolio(75, {}), <<Order("BTCUSDT", 10), Order("BTCUSDT", -135)>>) }

InitRefresh ==
    /\ now = 0
    /\ bots = << [Bot("b1", Real, FALSE, Portfolio(200, {P1}), 1) EXCEPT
                    !.orders = <<Order("DOGEUSDT", 7)>>, !.realizedPnl = 7],
                 Bot("b2", Paper, FALSE,
                     PaperPortfolio(Portfolio(9840, {D1, D2}), MarketData), 2) >>
    /\ markets = MarketData
    /\ cooldowns = [ref \in {1, 2} |-> NoCooldowns]
    /\ turn = [t \in TurnIds |-> IdleTurn]
    /\ refresh = [r \in RefreshIds |-> IdleRefresh]
    /\ venueCalls = <<>>
    /\ venue = [id \in {"b1", "b2"} |-> Account(Portfolio(LIVE_BOT_INITIAL_BALANCE, {}), <<>>)]
    /\ isGloballyPaused = FALSE
    /\ scheduled = TRUE
    /\ initialBalanceRef = [id \in {"b1", "b2"} |->
                              IF id = "b1" THEN LIVE_BOT_INITIAL_BALANCE
                              ELSE PAPER_BOT_INITIAL_BALANCE]
    /\ reset = IdleReset
    /\ adjust = IdleAdjust
    /\ isLoading = FALSE
    /\ init = InitDone

NextRefresh ==
    \/ \E r \in RefreshIds :
          (\A u \in RefreshIds : refresh[u].pc \in {"idle", "done"}) /\ RefreshStart(r)
    \/ \E r \in RefreshIds, md \in RefreshMarkets : RefreshMarket(r, md)
    \/ \E r \in RefreshIds, failed \in {{}, {"b1"}} : RefreshFinish(r, failed)
    \/ \E acct \in VenueAccounts : VenueMoves("b1", acct)
    \/ \E id \in {"b1", "b2"}, confirmed \in BOOLEAN : ResetCall(id, confirmed)
    \/ \E mode \in {"", Paper, Real} : ResetFinish(mode)

SpecRefresh == InitRefresh /\ [][NextRefresh]_vars

\* Decision turns of one simulated agent that holds a position opened at the
\* current market price: the provider asks to open, to close the position, or
\* both.
PaperDecisions ==
    { Decision(Long, "BTCUSDT", 100, 10, ""),
      Decision(Short, "DOGEUSDT", 60, 5, ""),
      Decision(Long, "BTCUSDT", 49, 10, ""),
      Decision(Long, "XRPUSDT", 100, 5, ""),
      Decision(Close, "", 0, 0, "d1") }

PaperResults == {Result(ds, FALSE) : ds \in SeqsUpTo(PaperDecisions, 2)}

InitPaper ==
    /\ now = 0
    /\ bots = << Bot("b2", Paper, FALSE,
                     PaperPortfolio(Portfolio(9900, {D1}), MarketData), 1) >>
    /\ markets = MarketData
    /\ cooldowns = [ref \in {1} |-> NoCooldowns]
    /\ turn = [t \in TurnIds |-> IdleTurn]
    /\ refresh = [r \in RefreshIds |-> IdleRefresh]
    /\ venueCalls = <<>>
    /\ venue = [id \in {"b2"} |-> Account(Portfolio(LIVE_BOT_INITIAL_BALANCE, {}), <<>>)]
    /\ isGloballyPaused = FALSE
    /\ scheduled = TRUE
    /\ initialBalanceRef = [id \in {"b2"} |-> PAPER_BOT_INITIAL_BALANCE]
    /\ reset = IdleReset
    /\ adjust = IdleAdjust
    /\ isLoading = FALSE
    /\ init = InitDone

NextPaper ==
    \/ \E t \in TurnIds : TurnStart(t, FALSE)
    \/ \E t \in TurnIds, res \in PaperResults : TurnDecide(t, res)

SpecPaper == InitPaper /\ [][NextPaper]_vars

\* Initialization: the hook has just been mounted.  The configuration store
\* answers with no agent, a live and a simulated one, or two live ones; the
\* saved state is absent or holds agents, one of them without a configuration.
InitConfigs ==
    { <<>>,
      <<Config("b1", Real, FALSE), Config("b2", Paper, TRUE)>>,
      <<Config("b1", Real, FALSE), Config("b2", Real, FALSE)>> }

SavedBots ==
    { <<>>,
      << [Bot("b1", Real, FALSE, Portfolio(200, {P1}), 1) EXCEPT
             !.orders = <<Order("DOGEUSDT", 7)>>, !.realizedPnl = 7,
             !.valueHistory = <<Point(0 - 2, 950), Point(0 - 1, 910)>>],
         Bot("b9", Paper, FALSE, Portfolio(5000, {}), 2),
         Bot("b2", Paper, FALSE, PaperPortfolio(Portfolio(9840, {D1, D2}), MarketData), 3) >> }

\* the symbolCooldowns objects of the bots after getArenaState
SavedHeap(saved) ==
    IF saved = <<>> THEN [ref \in {1, 2} |-> NoCooldowns]
    ELSE [ref \in {1, 2, 3} |-> IF ref = 1 THEN [NoCooldowns EXCEPT !["BTCUSDT"] = 20]
                                ELSE NoCooldowns]

InitInit ==
    /\ now = 0
    /\ bots = <<>>
    /\ markets = NoMarkets
    /\ cooldowns = <<>>
    /\ turn = [t \in TurnIds |-> IdleTurn]
    /\ refresh = [r \in RefreshIds |-> IdleRefresh]
    /\ venueCalls = <<>>
    /\ venue \in [{"b1", "b2"} -> VenueAccounts]
    /\ isGloballyPaused \in BOOLEAN
    /\ scheduled = FALSE
    /\ initialBalanceRef = <<>>
    /\ reset = IdleReset
    /\ adjust = IdleAdjust
    /\ isLoading = TRUE
    /\ init = InitRecord("start")

NextInit ==
    \/ \E configured \in BOOLEAN : InitStart(configured)
    \/ \E ok \in BOOLEAN : ExchangeInfoSettles(ok)
    \/ ExchangeInfoTimeout
    \/ \E configs \in InitConfigs : ConfigsArrive(configs)
    \/ \E saved \in SavedBots : SavedStateArrives(saved, SavedHeap(saved))
    \/ SavedStateFails
    \/ \E id \in {"b1", "b2"}, ok \in BOOLEAN : SyncSettles(id, ok)
    \/ \E id \in {"b1", "b2"} : SyncTimeout(id)

\* The timers fire, and the configuration store and the state store answer;
\* nothing is assumed of getExchangeInfo and of the venue's initial sync.
FairInit ==
    /\ WF_vars(\E configured \in BOOLEAN : InitStart(configured))
    /\ WF_vars(ExchangeInfoTimeout)
    /\ WF_vars(\E configs \in InitConfigs : ConfigsArrive(configs))
    /\ WF_vars((\E saved \in SavedBots : SavedStateArrives(saved, SavedHeap(saved)))
               \/ SavedStateFails)
    /\ WF_vars(\E id \in {"b1", "b2"} : SyncTimeout(id))

SpecInit == InitInit /\ [][NextInit]_vars /\ FairInit

\* One live agent holding a position, one turn tick and one refresh tick in
\* any interleaving: the provider asks to close the position, to close one the
\* agent does not hold, or to open, and the venue answers in every way.
FrameDecisions ==
    { Decision(Close, "", 0, 0, "p1"),
      Decision(Close, "", 0, 0, "p9"),
      Decision(Long, "BTCUSDT", 100, 10, ""),
      Decision(Short, "DOGEUSDT", 100, 30, ""),
      Decision(Long, "BTCUSDT", 49, 10, "") }

FrameResults == {Result(ds, FALSE) : ds \in SeqsUpTo(FrameDecisions, 2)}

InitFrame ==
    /\ now = 0
    /\ bots = << Bot("b1", Real, FALSE, Portfolio(200, {P1}), 1) >>
    /\ markets = MarketData
    /\ cooldowns = [ref \in {1} |-> NoCooldowns]
    /\ turn = [t \in TurnIds |-> IdleTurn]
    /\ refresh = [r \in RefreshIds |-> IdleRefresh]
    /\ venueCalls = <<>>
    /\ venue = [id \in {"b1"} |-> Account(Portfolio(210, {}), <<Order("BTCUSDT", 10)>>)]
    /\ isGloballyPaused = FALSE
    /\ scheduled = TRUE
    /\ initialBalanceRef = [id \in {"b1"} |-> LIVE_BOT_INITIAL_BALANCE]
    /\ reset = IdleReset
    /\ adjust = IdleAdjust
    /\ isLoading = FALSE
    /\ init = InitDone

NextFrame ==
    \/ TurnStart(1, FALSE)
    \/ \E res \in FrameResults : TurnDecide(1, res)
    \/ TurnExec(1, Outcomes)
    \/ TurnWrite(1)
    \/ RefreshStart(1)
    \/ RefreshMarket(1, MarketData)
    \/ \E failed \in SUBSET {"b1"} : RefreshFinish(1, failed)

SpecFrame == InitFrame /\ [][NextFrame]_vars

\* One decision turn of one live agent that holds a long and a short position:
\* the provider asks to close either position or to open a long or a short
\* with or without stop-loss and take-profit, and the venue answers in every way.
SidesDecisions ==
    { Decision(Close, "", 0, 0, "p1"),
      Decision(Close, "", 0, 0, "d2"),
      WithLegs(Decision(Long, "BTCUSDT", 100, 10, ""), 85000, 99000),
      WithLegs(Decision(Short, "DOGEUSDT", 60, 5, ""), 3, 1),
      Decision(Short, "DOGEUSDT", 60, 5, "") }

SidesResults == {Result(ds, FALSE) : ds \in SeqsUpTo(SidesDecisions, 2)}

InitSides ==
    /\ now = 0
    /\ bots = << Bot("b1", Real, FALSE, Portfolio(200, {P1, D2}), 1) >>
    /\ markets = MarketData
    /\ cooldowns = [ref \in {1} |-> NoCooldowns]
    /\ turn = [t \in TurnIds |-> IdleTurn]
    /\ refresh = [r \in RefreshIds |-> IdleRefresh]
    /\ venueCalls = <<>>
    /\ venue = [id \in {"b1"} |-> Account(bots[1].portfolio, <<>>)]
    /\ isGloballyPaused = FALSE
    /\ scheduled = TRUE
    /\ initialBalanceRef = [id \in {"b1"} |-> LIVE_BOT_INITIAL_BALANCE]
    /\ reset = IdleReset
    /\ adjust = IdleAdjust
    /\ isLoading = FALSE
    /\ init = InitDone

NextSides ==
    \/ TurnStart(1, FALSE)
    \/ \E res \in SidesResults : TurnDecide(1, res)
    \/ TurnExec(1, Outcomes)
    \/ TurnWrite(1)

SpecSides == InitSides /\ [][NextSides]_vars

\* The turn log at its bound: one simulated agent whose log holds the entries
\* of earlier turns, one short of the bound; turn ticks fire also while a turn
\* is in flight, the provider answers with or without decisions or with an
\* error, and the clock moves between the steps.
OldLog(n) ==
    [m \in 1..n |-> [timestamp |-> 0 - m, decisions |-> <<>>, notes |-> <<>>,
                     turn |-> 0, error |-> FALSE]]

OldLogLength == MaxBotLogs - 1

\* the entries of the log written since the start
NewEntries(log) == Cardinality({m \in 1..Len(log) : log[m].turn # 0})

LogResults ==
    { Result(<<>>, TRUE),
      Result(<<Decision(Long, "BTCUSDT", 100, 10, "")>>, FALSE) }

InitLog ==
    /\ now = 0
    /\ bots = << [Bot("b2", Paper, FALSE, Portfolio(9900, {}), 1)
                    EXCEPT !.botLogs = OldLog(OldLogLength)] >>
    /\ markets = MarketData
    /\ cooldowns = [ref \in {1} |-> NoCooldowns]
    /\ turn = [t \in TurnIds |-> IdleTurn]
    /\ refresh = [r \in RefreshIds |-> IdleRefresh]
    /\ venueCalls = <<>>
    /\ venue = [id \in {"b2"} |-> Account(Portfolio(LIVE_BOT_INITIAL_BALANCE, {}), <<>>)]
    /\ isGloballyPaused = FALSE
    /\ scheduled = TRUE
    /\ initialBalanceRef = [id \in {"b2"} |-> PAPER_BOT_INITIAL_BALANCE]
    /\ reset = IdleReset
    /\ adjust = IdleAdjust
    /\ isLoading = FALSE
    /\ init = InitDone

NextLog ==
    \/ Tick(20)
    \/ \E t \in 1..2 :
          /\ NewEntries(bots[1].botLogs) <= MaxBotLogs - OldLogLength
          /\ TurnStart(t, TRUE)
    \/ \E t \in 1..2, res \in LogResults : TurnDecide(t, res)
    \/ \E t \in 1..2 : TurnReturn(t)

SpecLog == InitLog /\ [][NextLog]_vars

\* The value history at its bound: a live and a simulated agent whose
\* histories hold the points of earlier ticks, one short of the bound; two
\* refresh ticks, the second also while the first is waiting for the venue,
\* prices that move, and the clock moving between the steps.
OldHistory(n, v) == [m \in 1..n |-> Point(m - n - 1, v)]

InitHistory ==
    /\ now = 0
    /\ bots = << [Bot("b1", Real, FALSE, Portfolio(200, {P1}), 1) EXCEPT
                    !.valueHistory = OldHistory(MaxValueHistory - 1, 200)],
                 [Bot("b2", Paper, FALSE,
                      PaperPortfolio(Portfolio(9900, {D1}), MarketData), 2) EXCEPT
                    !.valueHistory = OldHistory(MaxValueHistory - 1, 10000)] >>
    /\ markets = MarketData
    /\ cooldowns = [ref \in {1, 2} |-> NoCooldowns]
    /\ turn = [t \in TurnIds |-> IdleTurn]
    /\ refresh = [r \in RefreshIds |-> IdleRefresh]
    /\ venueCalls = <<>>
    /\ venue = [id \in {"b1", "b2"} |-> Account(Portfolio(210, {P1}), <<Order("BTCUSDT", 10)>>)]
    /\ isGloballyPaused = FALSE
    /\ scheduled = TRUE
    /\ initialBalanceRef = [id \in {"b1", "b2"} |->
                              IF id = "b1" THEN LIVE_BOT_INITIAL_BALANCE
                              ELSE PAPER_BOT_INITIAL_BALANCE]
    /\ reset = IdleReset
    /\ adjust = IdleAdjust
    /\ isLoading = FALSE
    /\ init = InitDone

NextHistory ==
    \/ Tick(20)
    \/ \E r \in 1..2 : RefreshStart(r)
    \/ \E r \in 1..2, md \in RefreshMarkets \cup {NoMarkets} : RefreshMarket(r, md)
    \/ \E r \in 1..2, failed \in {{}, {"b1"}} : RefreshFinish(r, failed)
    \/ \E acct \in VenueAccounts : VenueMoves("b1", acct)

SpecHistory == InitHistory /\ [][NextHistory]_vars

\* From the mount of the hook to the first ticks: initialization with no
\* agent configured, or a live and a simulated one, on no saved state or on a
\* saved state whose only agent has no configuration or is one of the two,
\* and then the turn and refresh ticks that the scheduler effect lets fire.
BootConfigs ==
    { <<>>,
      <<Config("b1", Real, FALSE), Config("b2", Paper, FALSE)>> }

BootSaved ==
    { <<>>,
      << Bot("b9", Paper, FALSE, Portfolio(5000, {}), 1) >>,
      << Bot("b1", Paper, TRUE, Portfolio(200, {P1}), 1) >> }

BootResults == { Result(<<Decision(Long, "BTCUSDT", 100, 10, "")>>, FALSE) }

InitBoot ==
    /\ now = 0
    /\ bots = <<>>
    /\ markets = NoMarkets
    /\ cooldowns = <<>>
    /\ turn = [t \in TurnIds |-> IdleTurn]
    /\ refresh = [r \in RefreshIds |-> IdleRefresh]
    /\ venueCalls = <<>>
    /\ venue = [id \in {"b1", "b2"} |-> Account(Portfolio(210, {}), <<Order("BTCUSDT", 10)>>)]
    /\ isGloballyPaused \in BOOLEAN
    /\ scheduled = FALSE
    /\ initialBalanceRef = <<>>
    /\ reset = IdleReset
    /\ adjust = IdleAdjust
    /\ isLoading = TRUE
    /\ init = InitRecord("start")

NextBoot ==
    \/ \E configured \in BOOLEAN : InitStart(configured)
    \/ \E ok \in BOOLEAN : ExchangeInfoSettles(ok)
    \/ ExchangeInfoTimeout
    \/ \E configs \in BootConfigs : ConfigsArrive(configs)
    \/ \E saved \in BootSaved :
          SavedStateArrives(saved, [ref \in {1, 2} |-> NoCooldowns])
    \/ SavedStateFails
    \/ \E ok \in BOOLEAN : SyncSettles("b1", ok)
    \/ SyncTimeout("b1")
    \/ \E t \in TurnIds : TurnStart(t, TRUE)
    \/ \E t \in TurnIds, res \in BootResults : TurnDecide(t, res)
    \/ \E t \in TurnIds : TurnExec(t, EngineOutcomes)
    \/ \E t \in TurnIds : TurnWrite(t)
    \/ \E r \in RefreshIds : RefreshStart(r)
    \/ \E r \in RefreshIds, md \in {MarketData, NoMarkets} : RefreshMarket(r, md)
    \/ \E r \in RefreshIds, failed \in SUBSET {"b1"} : RefreshFinish(r, failed)

SpecBoot == InitBoot /\ [][NextBoot]_vars

\* The engine running on: two live agents, the second paused or not, turn
\* ticks one after the other without end.  The first agent's provider answers
\* with the same two decisions every time and the second's fails every time;
\* the first agent's balance, the market data and the venue (one that takes
\* every order, one that rejects every opening order) differ from run to run.
LiveResult(id) ==
    IF id = "b1"
    THEN Result(<<Decision(Long, "BTCUSDT", 100, 10, ""), Decision(Close, "", 0, 0, "p1")>>,
                FALSE)
    ELSE Result(<<>>, TRUE)

LiveOutcomes ==
    IF venue["b1"].trades = <<>>
    THEN { Outcome(TRUE, TRUE, TRUE, TRUE, "ok") }
    ELSE { Outcome(TRUE, FALSE, TRUE, TRUE, "error") }

InitLive ==
    /\ now = 0
    /\ \E bal \in Balances, p2 \in BOOLEAN :
         bots = << Bot("b1", Real, FALSE, Portfolio(bal, {P1}), 1),
                   Bot("b2", Real, p2, Portfolio(80, {}), 2) >>
    /\ markets \in {MarketData, NoMarkets}
    /\ cooldowns = [ref \in {1, 2} |-> NoCooldowns]
    /\ turn = [t \in TurnIds |-> IdleTurn]
    /\ refresh = [r \in RefreshIds |-> IdleRefresh]
    /\ venueCalls = <<>>
    /\ \E trades \in {<<>>, <<Order("BTCUSDT", 10)>>} :
         venue = [id \in {"b1", "b2"} |-> Account(Portfolio(210, {P1}), trades)]
    /\ isGloballyPaused = FALSE
    /\ scheduled = TRUE
    /\ initialBalanceRef = [id \in {"b1", "b2"} |-> LIVE_BOT_INITIAL_BALANCE]
    /\ reset = IdleReset
    /\ adjust = IdleAdjust
    /\ isLoading = FALSE
    /\ init = InitDone

\* the record of the venue calls is kept for one tick: it is dropped when the
\* invocation has returned
CallsForgotten ==
    /\ venueCalls # <<>>
    /\ \A t \in TurnIds : turn[t].pc = "idle"
    /\ venueCalls' = <<>>
    /\ UNCHANGED <<now, bots, markets, cooldowns, turn, refresh, venue,
                   isGloballyPaused, scheduled, initialBalanceRef, reset, adjust, isLoading, init>>

NextLive ==
    \/ venueCalls = <<>> /\ TurnStart(1, FALSE)
    \/ CallsForgotten
    \/ TurnDecide(1, LiveResult(turn[1].snap[turn[1].idx].id))
    \/ TurnExec(1, LiveOutcomes)
    \/ TurnWrite(1)
    \/ TurnReturn(1)

\* The interval fires again, the provider and the venue answer every call,
\* and the callback goes on after each answer.
FairLive ==
    /\ WF_vars(venueCalls = <<>> /\ TurnStart(1, FALSE))
    /\ WF_vars(CallsForgotten)
    /\ WF_vars(TurnDecide(1, LiveResult(turn[1].snap[turn[1].idx].id)))
    /\ WF_vars(TurnExec(1, LiveOutcomes))
    /\ WF_vars(TurnWrite(1))
    /\ WF_vars(TurnReturn(1))

SpecLive == InitLive /\ [][NextLive]_vars /\ FairLive

\* getAdjustedQuantity on its own: the call is made with a raw quantity that
\* is the quotient of two whole numbers (a notional over a price) and a symbol
\* of each precision, the unknown one included, and it returns.
MaxNumerator == 120

Denominators == {1, 3, 7, 10, 25, 100, 1000}

QuantitySymbols == {"BTCUSDT", "DOGEUSDT", "XRPUSDT", "ETHUSDT"}

AdjustCall(s, num, den) ==
    [pc |-> "call", symbol |-> s, num |-> num, den |-> den,
     rawQuantity |-> Quotient(num, den), adjusted |-> Double(<<>>, 0)]

AdjustReturn ==
    /\ adjust.pc = "call"
    /\ adjust' = [adjust EXCEPT !.pc = "done",
                    !.adjusted = Adjusted(PrecisionOf(adjust.symbol), adjust.rawQuantity)]
    /\ UNCHANGED <<now, bots, markets, cooldowns, turn, refresh, venueCalls, venue,
                   isGloballyPaused, scheduled, initialBalanceRef, reset, isLoading, init>>

InitQuantity ==
    /\ now = 0
    /\ bots = <<>>
    /\ markets = NoMarkets
    /\ cooldowns = <<>>
    /\ turn = [t \in TurnIds |-> IdleTurn]
    /\ refresh = [r \in RefreshIds |-> IdleRefresh]
    /\ venueCalls = <<>>
    /\ venue = <<>>
    /\ isGloballyPaused = FALSE
    /\ scheduled = FALSE
    /\ initialBalanceRef = <<>>
    /\ reset = IdleReset
    /\ \E s \in QuantitySymbols, num \in 0..MaxNumerator, den \in Denominators :
          adjust = AdjustCall(s, num, den)
    /\ isLoading = FALSE
    /\ init = InitDone

NextQuantity == AdjustReturn

SpecQuantity == InitQuantity /\ [][NextQuantity]_vars

\* One decision turn of one live agent, for every decision list, balance,
\* position set, cooldown entry and time of day.
InitTurn ==
    \* no BTCUSDT cooldown entry, an unexpired one, one that expires just now
    /\ \E nc \in {<<0, 0>>, <<0, 20>>, <<20, 20>>} :
         /\ now = nc[1]
         /\ cooldowns = [ref \in {1} |-> [NoCooldowns EXCEPT !["BTCUSDT"] = nc[2]]]
    /\ \E bal \in Balances, pos \in {{}, {P1}} :
         bots = << Bot("b1", Real, FALSE, Portfolio(bal, pos), 1) >>
    /\ markets = MarketData
    /\ turn = [t \in TurnIds |-> IdleTurn]
    /\ refresh = [r \in RefreshIds |-> IdleRefresh]
    /\ venueCalls = <<>>
    /\ venue = [id \in {"b1"} |-> Account(bots[1].portfolio, <<>>)]
    /\ isGloballyPaused = FALSE
    /\ scheduled = TRUE
    /\ initialBalanceRef = [id \in {"b1"} |-> LIVE_BOT_INITIAL_BALANCE]
    /\ reset = IdleReset
    /\ adjust = IdleAdjust
    /\ isLoading = FALSE
    /\ init = InitDone

NextTurn ==
    \/ TurnStart(1, FALSE)
    \/ \E res \in TurnResults : TurnDecide(1, res)
    \/ TurnExec(1, Outcomes)
    \/ TurnWrite(1)

SpecTurn == InitTurn /\ [][NextTurn]_vars

\* One live agent holding a position, over several turns and with the clock
\* running: the decision source asks to close the position or to open on its
\* symbol again.
ClockSteps == {10, 21}

CooldownResults ==
    { Result(<<Decision(Close, "", 0, 0, "p1")>>, FALSE),
      Result(<<Decision(Long, "BTCUSDT", 100, 10, "")>>, FALSE) }

CooldownOutcomes ==
    { Outcome(TRUE, TRUE, TRUE, TRUE, "ok"),
      Outcome(TRUE, TRUE, TRUE, TRUE, "error") }

InitCooldown ==
    /\ now = 0
    /\ bots = << Bot("b1", Real, FALSE, Portfolio(200, {P1}), 1) >>
    /\ markets = MarketData
    /\ cooldowns = [ref \in {1} |-> NoCooldowns]
    /\ turn = [t \in TurnIds |-> IdleTurn]
    /\ refresh = [r \in RefreshIds |-> IdleRefresh]
    /\ venueCalls = <<>>
    /\ venue = [id \in {"b1"} |-> Account(bots[1].portfolio, <<>>)]
    /\ isGloballyPaused = FALSE
    /\ scheduled = TRUE
    /\ initialBalanceRef = [id \in {"b1"} |-> LIVE_BOT_INITIAL_BALANCE]
    /\ reset = IdleReset
    /\ adjust = IdleAdjust
    /\ isLoading = FALSE
    /\ init = InitDone

NextCooldown ==
    \/ \E dt \in ClockSteps : Tick(dt)
    \/ Len(bots[1].botLogs) < MaxTurns /\ TurnStart(1, FALSE)
    \/ \E res \in CooldownResults : TurnDecide(1, res)
    \/ TurnExec(1, CooldownOutcomes)
    \/ TurnWrite(1)
    \/ TurnReturn(1)

SpecCooldown == InitCooldown /\ [][NextCooldown]_vars

----------------------------------------------------------------------------
(* Claims about one decision turn (SpecTurn) *)

\* the bot that invocation t is working on
CurrentBot(t) == turn[t].snap[turn[t].idx]

\* validation of the current bot's decisions has run and nothing was executed yet
Validated(t) == turn[t].pc = "exec" /\ turn[t].k = 1

\* every accepted decision of the current bot has been executed
Executed(t) == turn[t].pc = "exec" /\ turn[t].k > Len(turn[t].validated)

Accepted(t, i) == \E n \in 1..Len(turn[t].validated) : turn[t].validated[n].i = i

NotesOf(t, i) == {turn[t].notes[n] : n \in {m \in 1..Len(turn[t].notes) : turn[t].notes[m].i = i}}

IsRejection(note) ==
    note.kind \in {"REJECTED_MIN", "REJECTED_COOLDOWN", "REJECTED_BALANCE", "REJECTED_ADJUSTED"}

\* the venue calls made for decision i of the current bot of invocation t
CallsOf(t, i) ==
    {venueCalls[n] : n \in {m \in 1..Len(venueCalls) :
        /\ venueCalls[m].turn = t
        /\ venueCalls[m].call.bot = CurrentBot(t).id
        /\ venueCalls[m].call.i = i}}

IsOpeningOrder(c) ==
    c.call.fn = "placeOrder" /\ c.call.type = "MARKET" /\ ~c.call.reduceOnly

\* C1 (as claimed): every directional decision whose size is below the
\* configured minimum, 0 included, is rejected by validation: it is not in
\* the accepted list, it has a rejection note, and no venue call is made for it.
C1_BelowMinimumRejected ==
    \A t \in TurnIds : turn[t].pc = "exec" =>
        \A i \in 1..Len(turn[t].decisions) :
            LET d == turn[t].decisions[i] IN
            (IsDirectional(d) /\ d.size < MINIMUM_TRADE_SIZE_USD) =>
                /\ ~Accepted(t, i)
                /\ \E note \in NotesOf(t, i) : IsRejection(note)
                /\ CallsOf(t, i) = {}

\* C2 (as claimed): no opening market order is submitted on a symbol whose
\* cooldown entry for the agent is unexpired at submission time.
C2_NoOpenDuringCooldown ==
    \A n \in 1..Len(venueCalls) :
        IsOpeningOrder(venueCalls[n]) => ~(venueCalls[n].at < venueCalls[n].cooldownEnd)

\* C3: in the validation step, a directional decision on a symbol whose
\* cooldown entry in the agent's state satisfies now < expiry is rejected
\* with a note and is not put in the accepted list.
C3_CooldownRejected ==
    [][\A t \in TurnIds :
          (turn[t].pc = "await" /\ turn'[t] # turn[t]) =>
             LET agent == bots[BotIndex(bots, CurrentBot(t).id)]
                 cd == cooldowns[agent.symbolCooldowns]
             IN \A i \in 1..Len(turn'[t].decisions) :
                   LET d == turn'[t].decisions[i] IN
                   (IsDirectional(d) /\ d.symbol \in Symbols /\ now < cd[d.symbol]) =>
                      /\ \A n \in 1..Len(turn'[t].validated) : turn'[t].validated[n].i # i
                      /\ \E n \in 1..Len(turn'[t].notes) :
                            turn'[t].notes[n].i = i /\ IsRejection(turn'[t].notes[n])]_vars

\* a decision on a symbol under cooldown, large enough to pass the size rule,
\* has been validated and carries the cooldown rejection
C3_Witness ==
    /\ Validated(1)
    /\ \E i \in 1..Len(turn[1].decisions) :
          LET d == turn[1].decisions[i] IN
          /\ IsDirectional(d)
          /\ d.symbol \in Symbols
          /\ d.size >= MINIMUM_TRADE_SIZE_USD
          /\ now < cooldowns[CurrentBot(1).symbolCooldowns][d.symbol]
          /\ \E note \in NotesOf(1, i) : note.kind = "REJECTED_COOLDOWN"

\* C8: a directional decision whose leverage exceeds the symbol's maximum
\* (25 without a configured limit) and that the size and cooldown rules let
\* pass is accepted with the maximum as its effective leverage and an
\* adjustment note; no accepted decision carries more than the maximum, and
\* every setLeverage call sent to the venue is within the symbol's maximum.
C8_LeverageClamped ==
    /\ \A t \in TurnIds : Validated(t) =>
          LET cd == cooldowns[CurrentBot(t).symbolCooldowns] IN
          /\ \A i \in 1..Len(turn[t].decisions) :
                LET d == turn[t].decisions[i] IN
                ( /\ IsDirectional(d)
                  /\ d.symbol \in Symbols
                  /\ d.leverage > MaxLeverageOf(d.symbol)
                  /\ d.size >= MINIMUM_TRADE_SIZE_USD
                  /\ ~(now < cd[d.symbol]) ) =>
                   /\ \E n \in 1..Len(turn[t].validated) :
                         /\ turn[t].validated[n].i = i
                         /\ turn[t].validated[n].adjustedLeverage = MaxLeverageOf(d.symbol)
                   /\ \E note \in NotesOf(t, i) :
                         note.kind = "NOTE_LEVERAGE" /\ note.val = MaxLeverageOf(d.symbol)
                   /\ ~\E note \in NotesOf(t, i) : IsRejection(note)
          /\ \A n \in 1..Len(turn[t].validated) :
                LET v == turn[t].validated[n] IN
                (IsDirectional(v.decision) /\ v.decision.symbol \in Symbols) =>
                   v.adjustedLeverage <= MaxLeverageOf(v.decision.symbol)
    /\ \A n \in 1..Len(venueCalls) :
          venueCalls[n].call.fn = "setLeverage" =>
             venueCalls[n].call.leverage <= MaxLeverageOf(venueCalls[n].call.symbol)

\* a setLeverage call went out for a decision that asked for more than the
\* maximum, carrying the maximum
C8_Witness ==
    \E n \in 1..Len(venueCalls) :
        LET c == venueCalls[n] IN
        /\ c.call.fn = "setLeverage"
        /\ c.turn = 1
        /\ turn[1].decisions[c.call.i].leverage > MaxLeverageOf(c.call.symbol)
        /\ c.call.leverage = MaxLeverageOf(c.call.symbol)

\* C9 (as claimed): when the live agent's available balance is below the
\* minimum trade size, every directional decision ends rejected with a note,
\* without a size adjustment note and without any venue call.
C9_LowBalanceRejected ==
    \A t \in TurnIds :
        (Executed(t) /\ CurrentBot(t).tradingMode = Real
           /\ CurrentBot(t).portfolio.balance < MINIMUM_TRADE_SIZE_USD) =>
        \A i \in 1..Len(turn[t].decisions) :
            IsDirectional(turn[t].decisions[i]) =>
                /\ \E note \in NotesOf(t, i) : IsRejection(note)
                /\ ~\E note \in NotesOf(t, i) : note.kind = "NOTE_SIZE"
                /\ CallsOf(t, i) = {}

\* C10 (as claimed): when the live agent's available balance is at least the
\* minimum and an accepted directional decision asks for more than it, the
\* trade size becomes the available balance, an adjustment note is emitted
\* and the order proceeds to the venue with the clamped size; every opening
\* order uses a trade size between the minimum and the available balance.
C10_SizeClamped ==
    \A t \in TurnIds :
        (Executed(t) /\ CurrentBot(t).tradingMode = Real) =>
        LET availableBalance == CurrentBot(t).portfolio.balance IN
        /\ \A i \in 1..Len(turn[t].decisions) :
              LET d == turn[t].decisions[i] IN
              ( /\ IsDirectional(d)
                /\ Accepted(t, i)
                /\ availableBalance >= MINIMUM_TRADE_SIZE_USD
                /\ d.size > availableBalance ) =>
                 /\ \E note \in NotesOf(t, i) :
                       note.kind = "NOTE_SIZE" /\ note.val = availableBalance
                 /\ \E c \in CallsOf(t, i) : c.call.size = availableBalance
                 /\ \A c \in CallsOf(t, i) : c.call.size = availableBalance
        /\ \A i \in 1..Len(turn[t].decisions) :
              \A c \in CallsOf(t, i) :
                 IsOpeningOrder(c) =>
                    /\ MINIMUM_TRADE_SIZE_USD <= c.call.size
                    /\ c.call.size <= availableBalance

\* the positions of the agent that a CLOSE decision names
Targets(bot, d) == {p \in bot.portfolio.positions : p.id = d.closePositionId}

\* C11 (as claimed): a live CLOSE decision whose close-target id matches no
\* position of the agent causes no venue call and no cooldown entry, and
\* leaves a benign note for the decision in the turn's note list.
C11_AbsentCloseNoted ==
    \A t \in TurnIds :
        (Executed(t) /\ CurrentBot(t).tradingMode = Real) =>
        \A i \in 1..Len(turn[t].decisions) :
            LET d == turn[t].decisions[i] IN
            (d.action = Close /\ d.closePositionId # "" /\ Targets(CurrentBot(t), d) = {}) =>
                /\ CallsOf(t, i) = {}
                /\ NotesOf(t, i) # {}

----------------------------------------------------------------------------
(* Claims about the protective orders (SpecLegs) *)

\* the protective orders of the given type placed for decision i
LegCalls(t, i, type) ==
    {c \in CallsOf(t, i) : c.call.fn = "placeOrder" /\ c.call.type = type}

\* the leg that the decision specifies has exactly one order, reduce-only,
\* for the opened quantity on the opposite side, and a note of its own that
\* tells whether the venue took it; a leg that is not specified has neither
LegRecorded(t, i, open, price, type, name) ==
    IF price = 0
    THEN /\ LegCalls(t, i, type) = {}
         /\ ~\E note \in NotesOf(t, i) : note.kind \in {"SUCCESS_" \o name, "ERROR_" \o name}
    ELSE /\ Cardinality(LegCalls(t, i, type)) = 1
         /\ \A c \in LegCalls(t, i, type) :
               /\ c.call.reduceOnly
               /\ c.call.quantity = open.call.quantity
               /\ c.call.side = (IF open.call.side = "BUY" THEN "SELL" ELSE "BUY")
               /\ \E note \in NotesOf(t, i) :
                     note.kind = (IF c.call.ok THEN "SUCCESS_" \o name ELSE "ERROR_" \o name)
               /\ ~\E note \in NotesOf(t, i) :
                     note.kind = (IF c.call.ok THEN "ERROR_" \o name ELSE "SUCCESS_" \o name)

\* C15: once the opening market order of a live open has been taken by the
\* venue its success note is in the note list whatever happens to the
\* protective orders, nothing is sent to cancel or reverse it and no
\* execution error is noted for the decision; each protective leg the
\* decision specifies is submitted and gets its own success or error note,
\* also when the other leg fails.
C15_LegFailureIsolated ==
    \A t \in TurnIds : turn[t].pc = "exec" =>
        \A i \in 1..Len(turn[t].decisions) : \A open \in CallsOf(t, i) :
            (IsOpeningOrder(open) /\ open.call.ok) =>
                LET d == turn[t].decisions[i] IN
                /\ \E note \in NotesOf(t, i) : note.kind = "SUCCESS_OPEN"
                /\ ~\E note \in NotesOf(t, i) : note.kind = "EXEC_ERROR"
                /\ LegRecorded(t, i, open, d.stopLoss, "STOP_MARKET", "SL")
                /\ LegRecorded(t, i, open, d.takeProfit, "TAKE_PROFIT_MARKET", "TP")
                /\ \A c \in CallsOf(t, i) :
                      \/ c.call.fn = "setLeverage"
                      \/ c = open
                      \/ c.call.type \in {"STOP_MARKET", "TAKE_PROFIT_MARKET"}

\* the venue took the opening order, rejected the stop-loss order and took
\* the take-profit order: three notes, one for each
C15_Witness ==
    /\ turn[1].pc = "exec"
    /\ \E i \in 1..Len(turn[1].decisions) :
          /\ \E open \in CallsOf(1, i) : IsOpeningOrder(open) /\ open.call.ok
          /\ \E c \in LegCalls(1, i, "STOP_MARKET") : ~c.call.ok
          /\ \E c \in LegCalls(1, i, "TAKE_PROFIT_MARKET") : c.call.ok
          /\ {"SUCCESS_OPEN", "ERROR_SL", "SUCCESS_TP"} \subseteq {note.kind : note \in NotesOf(1, i)}

----------------------------------------------------------------------------
(* Claims about the cooldown over time (SpecCooldown) *)

\* the closing orders of agent id on symbol s that the venue accepted
ClosesOf(id, s) ==
    {n \in 1..Len(venueCalls) :
        /\ venueCalls[n].call.bot = id
        /\ venueCalls[n].call.symbol = s
        /\ venueCalls[n].call.type = "MARKET"
        /\ venueCalls[n].call.reduceOnly
        /\ venueCalls[n].call.ok}

\* the time T of the latest successful close of agent id on symbol s
LastClose(id, s) ==
    LET n == CHOOSE m \in ClosesOf(id, s) : \A k \in ClosesOf(id, s) : k <= m
    IN venueCalls[n].at

\* the cooldown entry of every symbol the agent closed is T + 30 minutes
ExpiryIsCloseTimePlus30 ==
    \A b \in 1..Len(bots) : \A s \in Symbols :
        ClosesOf(bots[b].id, s) # {} =>
            cooldowns[bots[b].symbolCooldowns][s] = LastClose(bots[b].id, s) + 30

\* C12: after a successful close at time T the symbol's cooldown entry is
\* T + 30 minutes; a directional open on that symbol validated at a time
\* t < T + 30 is rejected with a note and not accepted, and one validated at
\* t >= T + 30 gets no cooldown rejection and (its size being at least the
\* minimum) is accepted.  Nothing sweeps the map: the entry stays in place.
C12_CooldownWindow ==
    [][/\ ExpiryIsCloseTimePlus30'
       /\ \A t \in TurnIds :
             (turn[t].pc = "await" /\ turn'[t] # turn[t]) =>
                \A i \in 1..Len(turn'[t].decisions) :
                   LET d == turn'[t].decisions[i]
                       id == CurrentBot(t).id
                       rejected == \E n \in 1..Len(turn'[t].notes) :
                                       /\ turn'[t].notes[n].i = i
                                       /\ turn'[t].notes[n].kind = "REJECTED_COOLDOWN"
                       accepted == \E n \in 1..Len(turn'[t].validated) :
                                       turn'[t].validated[n].i = i
                   IN (IsDirectional(d) /\ d.symbol \in Symbols /\ ClosesOf(id, d.symbol) # {}) =>
                         IF now < LastClose(id, d.symbol) + 30
                         THEN rejected /\ ~accepted
                         ELSE ~rejected /\ (d.size >= MINIMUM_TRADE_SIZE_USD => accepted)]_vars

\* Scenario D: the position was closed at T, an open on its symbol was
\* rejected in a turn logged before T + 30, and an open on it validated at
\* or after T + 30 has just been accepted.
C12_Witness ==
    /\ Validated(1)
    /\ ClosesOf("b1", "BTCUSDT") # {}
    /\ now >= LastClose("b1", "BTCUSDT") + 30
    /\ \E n \in 1..Len(turn[1].validated) :
          /\ turn[1].validated[n].decision.action = Long
          /\ turn[1].validated[n].decision.symbol = "BTCUSDT"
    /\ \E m \in 1..Len(bots[1].botLogs) :
          /\ bots[1].botLogs[m].timestamp >= LastClose("b1", "BTCUSDT")
          /\ bots[1].botLogs[m].timestamp < LastClose("b1", "BTCUSDT") + 30
          /\ \E n \in 1..Len(bots[1].botLogs[m].notes) :
                bots[1].botLogs[m].notes[n].kind = "REJECTED_COOLDOWN"

----------------------------------------------------------------------------
(* Claims about the per-agent pause (SpecPause) *)

\* C13: an agent whose pause flag is set gets no decision turn (it is never
\* the agent a turn awaits a decision for or executes, no venue call is made
\* for it, it gets no TurnLog entry and its cooldown map stays as it was),
\* while a refresh tick treats it exactly as it would if it were not paused:
\* when the tick reaches its state write the agent has the refreshed
\* portfolio and one more value-history point, and when the tick fails no
\* agent, paused or not, is changed.
C13_PauseGatesTurnsOnly ==
    [][/\ \A b \in 1..Len(bots') : bots'[b].isPaused =>
             /\ \A t \in TurnIds : InFlight(t)' => turn'[t].snap[turn'[t].idx].id # bots'[b].id
             /\ \A n \in 1..Len(venueCalls') : venueCalls'[n].call.bot # bots'[b].id
             /\ bots'[b].botLogs = <<>>
             /\ cooldowns'[bots'[b].symbolCooldowns] = NoCooldowns
       /\ \A r \in RefreshIds :
             (refresh[r].pc = "fetch" /\ refresh'[r].pc = "done") =>
                \A n \in 1..Len(refresh[r].snap) :
                   LET bot == refresh[r].snap[n]
                       unpaused == UpdatedBot([bot EXCEPT !.isPaused = FALSE],
                                              refresh[r].md, venue[bot.id])
                   IN bot.isPaused =>
                         IF refresh'[r].failed = {}
                         THEN /\ bots'[n].id = bot.id
                              /\ bots'[n].isPaused
                              /\ bots'[n].portfolio = unpaused.portfolio
                              /\ bots'[n].valueHistory = unpaused.valueHistory
                              /\ bots'[n].orders = unpaused.orders
                         ELSE bots' = bots]_vars

\* the paused live agent holding a position has been passed over by a turn
\* tick that gave the other agent its turn, and a refresh tick has given the
\* paused agent the venue's portfolio and a second value-history point
C13_Witness ==
    /\ bots[1].isPaused
    /\ ~bots[2].isPaused
    /\ \E t \in TurnIds : turn[t].pc = "done"
    /\ bots[2].botLogs # <<>>
    /\ bots[1].botLogs = <<>>
    /\ bots[1].portfolio = venue["b1"].portfolio
    /\ Len(bots[1].valueHistory) = 2

----------------------------------------------------------------------------
(* Claims about the engine-level pause (SpecSched) *)

\* a tick of either cycle begins in this step
TickBegins ==
    \/ \E t \in TurnIds : turn[t].pc = "idle" /\ turn'[t].pc # "idle"
    \/ \E r \in RefreshIds : refresh[r].pc = "idle" /\ refresh'[r].pc # "idle"

\* every invocation in flight can take its next step
InFlightProceeds ==
    /\ \A t \in TurnIds :
          /\ turn[t].pc = "await" => ENABLED (\E res \in EngineResults : TurnDecide(t, res))
          /\ turn[t].pc = "exec" =>
                ENABLED (TurnExec(t, EngineOutcomes) \/ TurnWrite(t))
    /\ \A r \in RefreshIds :
          /\ refresh[r].pc = "market" => ENABLED (\E md \in {MarketData} : RefreshMarket(r, md))
          /\ refresh[r].pc = "fetch" => ENABLED RefreshFinish(r, {})

\* C14: no step that leaves the engine globally paused begins a refresh or
\* a turn tick, and the intervals are cleared then; a tick in flight keeps
\* every one of its steps enabled whatever the pause flag; and whenever the
\* engine is not paused both intervals are scheduled.
C14_GlobalPause ==
    /\ [](InFlightProceeds /\ (scheduled <=> ~isGloballyPaused))
    /\ [][isGloballyPaused' => ~TickBegins]_vars

\* the engine was paused while a turn was in flight, the turn went on to
\* place its order during the pause and wrote its log, and the pause has
\* been lifted: the intervals are scheduled again and the refresh started by
\* the resumption is running
C14_Witness ==
    /\ ~isGloballyPaused
    /\ scheduled
    /\ \E n \in 1..Len(venueCalls) : venueCalls[n].paused /\ venueCalls[n].call.ok
    /\ bots[1].botLogs # <<>>
    /\ \E r \in RefreshIds : refresh[r].pc = "market"

----------------------------------------------------------------------------
(* Claims about the engine (Spec) *)

\* the bots of invocation t's snapshot whose turn has been written back
Completed(t) ==
    {n \in 1..Len(turn[t].snap) :
        /\ ~turn[t].snap[n].isPaused
        /\ turn[t].pc \notin {"idle"}
        /\ (n < turn[t].idx \/ turn[t].pc = "done")}

EntriesOf(t, id) ==
    LET logs == bots[BotIndex(bots, id)].botLogs
    IN {m \in 1..Len(logs) : logs[m].turn = t}

\* C4 (as claimed): at most one runTradingTurn invocation is in flight at
\* any time.
C4_NoOverlappingTurns ==
    Cardinality({t \in TurnIds : InFlight(t)}) <= 1

\* C5 (as claimed): when the venue fetch made for one agent fails in a
\* refresh tick, every other agent still receives its refresh update (its
\* refreshed portfolio and a new value-history point) in that tick.
C5_RefreshFailureIsolated ==
    [][\A r \in RefreshIds :
          (refresh[r].pc = "fetch" /\ refresh'[r].pc = "done") =>
             \A n \in 1..Len(refresh[r].snap) :
                LET bot == refresh[r].snap[n] IN
                bot.id \notin refresh'[r].failed =>
                   /\ HasBot(bots', bot.id)
                   /\ bots'[BotIndex(bots', bot.id)].portfolio =
                         UpdatedBot(bot, refresh[r].md, venue[bot.id]).portfolio
                   /\ bots'[BotIndex(bots', bot.id)].valueHistory =
                         UpdatedBot(bot, refresh[r].md, venue[bot.id]).valueHistory]_vars

\* C6 (as claimed): every decision turn that has run to completion for a
\* non-paused agent has exactly one TurnLog entry in that agent's state, as
\* long as the size bound has not evicted it.
C6_TurnLogKept ==
    \A t \in TurnIds : \A n \in Completed(t) :
        LET id == turn[t].snap[n].id IN
        (HasBot(bots, id) /\ Len(bots[BotIndex(bots, id)].botLogs) < MaxBotLogs) =>
            Cardinality(EntriesOf(t, id)) = 1

\* C7 (as claimed): when the decision provider answers with an error, the
\* agent's TurnLog entry for that turn holds a note recording the error.
C7_ProviderErrorNoted ==
    \A b \in 1..Len(bots) : \A m \in 1..Len(bots[b].botLogs) :
        bots[b].botLogs[m].error =>
            \E n \in 1..Len(bots[b].botLogs[m].notes) :
                bots[b].botLogs[m].notes[n].kind = "PROVIDER_ERROR"

\* C16: the adjusted quantity is the raw quantity truncated to the symbol's
\* precision p (3 for a symbol without an entry): a <= q and q - a < 10^-p,
\* the values compared exactly; q - a < 10^-p is q * 10^p < a * 10^p + 1.
C16_Truncated ==
    adjust.pc = "done" =>
        LET q == adjust.rawQuantity
            a == adjust.adjusted
            factor == Pow10(PrecisionOf(adjust.symbol))
        IN /\ ~Less(q, a)
           /\ Less(Exact(q, factor), Plus(Exact(a, factor), Double(<<1>>, 0)))

\* C17: resetBot called for an agent in live mode is refused: the call
\* returns at once and the agent list (every agent's portfolio, orders, turn
\* logs and value history), the cooldowns and the recorded initial balances
\* are unchanged.
ResetCalledOnLive ==
    /\ reset'.n = reset.n + 1
    /\ \E n \in 1..Len(bots) : bots[n].id = reset'.id /\ bots[n].tradingMode = Real

C17_LiveResetRefused ==
    [][ResetCalledOnLive =>
         /\ reset'.pc = "idle"
         /\ reset'.last = "refused"
         /\ UNCHANGED <<bots, cooldowns, initialBalanceRef>>]_vars

\* C17 witness: a reset was refused for a live agent that holds a position and
\* a value history of several points.
C17_Witness ==
    /\ reset.pc = "idle"
    /\ reset.last = "refused"
    /\ \E n \in 1..Len(bots) :
         /\ bots[n].id = reset.id
         /\ bots[n].tradingMode = Real
         /\ bots[n].portfolio.positions # {}
         /\ Len(bots[n].valueHistory) > 1

\* a refresh tick reaches setBots(updatedBots) in this step
RefreshCompletes(r) ==
    /\ refresh[r].pc = "fetch"
    /\ refresh'[r].pc = "done"
    /\ refresh'[r].failed = {}

\* C18: after every refresh tick that completes, each live agent's portfolio
\* is the venue's account snapshot, its orders are the venue's trade history,
\* and its realized PnL is the sum of pnl over that history.
C18_LiveAgentsMirrorVenue ==
    [][\A r \in RefreshIds : RefreshCompletes(r) =>
         \A n \in 1..Len(bots') :
            bots'[n].tradingMode = Real =>
               /\ bots'[n].portfolio = venue[bots'[n].id].portfolio
               /\ bots'[n].orders = venue[bots'[n].id].trades
               /\ bots'[n].realizedPnl = SumOfPnl(venue[bots'[n].id].trades)]_vars

\* C18 witness: a tick has completed and the live agent b1, which started with
\* one local order and a local portfolio of 200, holds the venue's two trades,
\* their pnl sum and the venue's portfolio.
C18_Witness ==
    /\ \E r \in RefreshIds : refresh[r].pc = "done" /\ refresh[r].failed = {}
    /\ bots[1].tradingMode = Real
    /\ Len(venue["b1"].trades) = 2
    /\ bots[1].orders = venue["b1"].trades
    /\ bots[1].realizedPnl = -125
    /\ bots[1].portfolio = venue["b1"].portfolio

\* C19: a refresh tick never changes an initial balance that is recorded.
C19_InitialBalanceKept ==
    [][refresh' # refresh =>
         \A id \in DOMAIN initialBalanceRef :
            /\ id \in DOMAIN initialBalanceRef'
            /\ initialBalanceRef'[id] = initialBalanceRef[id]]_vars

\* C19 witness: a tick has synced two live agents; b1's record is still the
\* initial 950 although the venue reports 75, and b2, reset into live mode,
\* has the record the refresh made for it.
C19_Witness ==
    /\ \E r \in RefreshIds :
         /\ refresh[r].pc = "done"
         /\ refresh[r].failed = {}
         /\ RealBots(refresh[r].snap) = {"b1", "b2"}
    /\ venue["b1"].portfolio.balance = 75
    /\ "b1" \in DOMAIN initialBalanceRef
    /\ initialBalanceRef["b1"] = LIVE_BOT_INITIAL_BALANCE
    /\ "b2" \in DOMAIN initialBalanceRef
    /\ initialBalanceRef["b2"] = LIVE_BOT_INITIAL_BALANCE

RECURSIVE SumOfPositionPnl(_)
SumOfPositionPnl(ps) ==
    IF ps = {} THEN 0
    ELSE LET pos == CHOOSE x \in ps : TRUE
         IN pos.pnl + SumOfPositionPnl(ps \ {pos})

RECURSIVE SumOfSizes(_)
SumOfSizes(ps) ==
    IF ps = {} THEN 0
    ELSE LET pos == CHOOSE x \in ps : TRUE
         IN pos.size + SumOfSizes(ps \ {pos})

\* C20: in every state after a refresh tick, every simulated agent has
\* totalValue = balance + sum of the sizes of its positions + sum of their
\* pnl, and portfolio.pnl = that sum of pnl.
C20_PaperTotalValue ==
    (\E r \in RefreshIds : refresh[r].pc = "done" /\ refresh[r].failed = {}) =>
        \A n \in 1..Len(bots) :
           bots[n].tradingMode = Paper =>
              LET pf == bots[n].portfolio
              IN /\ pf.totalValue = pf.balance + SumOfSizes(pf.positions)
                                      + SumOfPositionPnl(pf.positions)
                 /\ pf.pnl = SumOfPositionPnl(pf.positions)

\* C20 witness: after a tick at a DOGE price of 1 the simulated agent holds its
\* two positions with pnl -250 and +200 and is worth 9840 + 160 - 50.
C20_Witness ==
    /\ \E r \in RefreshIds : refresh[r].pc = "done" /\ refresh[r].failed = {}
    /\ bots[2].tradingMode = Paper
    /\ Cardinality(bots[2].portfolio.positions) = 2
    /\ bots[2].portfolio.pnl = -50
    /\ bots[2].portfolio.totalValue = 9950

----------------------------------------------------------------------------
(* Claims about the simulated refresh (SpecRefresh) *)

\* C21: when a refresh tick completes at the market prices of the tick that
\* completed before it, every simulated agent that the earlier tick refreshed
\* and that nothing else has written since keeps its portfolio as it is (each
\* position's pnl, the portfolio's pnl, balance and totalValue); its value
\* history gets one more point.
C21_RefreshIdempotent ==
    [][\A r \in RefreshIds : \A u \in RefreshIds :
          ( /\ u + 1 = r
            /\ RefreshCompletes(r)
            /\ refresh[u].pc = "done"
            /\ refresh[u].failed = {}
            /\ refresh[u].md = refresh[r].md ) =>
             \A n \in 1..Len(bots) :
                ( /\ bots[n].tradingMode = Paper
                  /\ bots[n] = refresh[r].snap[n]
                  /\ n <= Len(refresh[u].snap)
                  /\ refresh[u].snap[n].id = bots[n].id
                  /\ refresh[u].snap[n].tradingMode = Paper ) =>
                   /\ bots'[n].portfolio = bots[n].portfolio
                   /\ bots'[n].valueHistory =
                         Append(bots[n].valueHistory,
                                Point(now, bots[n].portfolio.totalValue))]_vars

\* C21 witness: two ticks have completed at a DOGE price of 1; the simulated
\* agent holds its two positions with a pnl of -50 and a total value of 9950,
\* and its value history has the points of both ticks.
C21_Witness ==
    /\ \A r \in {1, 2} :
          /\ refresh[r].pc = "done"
          /\ refresh[r].failed = {}
          /\ refresh[r].md["DOGEUSDT"] = 1
    /\ bots[2].tradingMode = Paper
    /\ Cardinality(bots[2].portfolio.positions) = 2
    /\ bots[2].portfolio.pnl = -50
    /\ Len(bots[2].valueHistory) = 3
    /\ [n \in 1..3 |-> bots[2].valueHistory[n].value] = <<10100, 9950, 9950>>

----------------------------------------------------------------------------
(* Claims about the simulated execution (SpecPaper) *)

\* the step in which the turn of invocation t for a simulated agent goes from
\* the provider's answer to the write-back of the agent
PaperTurnRuns(t) ==
    /\ turn[t].pc = "await"
    /\ turn'[t] # turn[t]
    /\ CurrentBot(t).tradingMode = Paper

\* the accepted directional decisions of a list that name a priced symbol
OpensOf(vs, mk) ==
    {n \in 1..Len(vs) :
        /\ IsDirectional(vs[n].decision)
        /\ vs[n].decision.size # 0
        /\ HasMarket(mk, vs[n].decision.symbol)}

RECURSIVE MarginOf(_, _)
MarginOf(vs, ns) ==
    IF ns = {} THEN 0
    ELSE LET n == CHOOSE x \in ns : TRUE
         IN vs[n].decision.size + MarginOf(vs, ns \ {n})

\* C22 (as claimed): the turn of a simulated agent debits the size of every
\* accepted LONG/SHORT decision from the agent's balance and adds a position
\* on the decision's symbol for each.
C22_PaperOpenDebits ==
    [][\A t \in TurnIds : PaperTurnRuns(t) =>
          LET id == CurrentBot(t).id
              before == bots[BotIndex(bots, id)].portfolio
              after == bots'[BotIndex(bots', id)].portfolio
              vs == turn'[t].validated
              opens == OpensOf(vs, turn[t].mk)
          IN /\ after.balance = before.balance - MarginOf(vs, opens)
             /\ Cardinality(after.positions) >= Cardinality(before.positions)
             /\ \A n \in opens :
                   \E p \in after.positions \ before.positions :
                      p.symbol = vs[n].decision.symbol /\ p.size = vs[n].decision.size]_vars

\* "Every trade, both opening and closing, has a 3% fee": the percentage of
\* the notional charged as a fee
FeePercent == 3

\* the fee of the opening and of the closing of position p at its entry price
RoundTripFees(p) == 2 * ((FeePercent * p.size * p.leverage) \div 100)

\* the accepted CLOSE decisions of a list that name a position of the
\* portfolio whose entry price is the market price
ClosesAtEntryOf(vs, pf, mk) ==
    {n \in 1..Len(vs) :
        /\ vs[n].decision.action = Close
        /\ \E p \in pf.positions :
              /\ p.id = vs[n].decision.closePositionId
              /\ HasMarket(mk, p.symbol)
              /\ mk[p.symbol] = p.entryPrice}

\* C23 (as claimed): a simulated position that was opened for its size and is
\* closed at its entry price is removed, the agent's realized PnL goes down by
\* the opening and the closing fee, and the balance is the balance before the
\* open (the balance plus the position's size) minus the two fees.
C23_PaperRoundTrip ==
    [][\A t \in TurnIds : PaperTurnRuns(t) =>
          LET id == CurrentBot(t).id
              agent == bots[BotIndex(bots, id)]
              after == bots'[BotIndex(bots', id)]
              vs == turn'[t].validated
              closes == ClosesAtEntryOf(vs, agent.portfolio, turn[t].mk)
          IN (OpensOf(vs, turn[t].mk) = {} /\ Cardinality(closes) = 1) =>
                \A n \in closes : \A p \in agent.portfolio.positions :
                   p.id = vs[n].decision.closePositionId =>
                      /\ ~\E x \in after.portfolio.positions : x.id = p.id
                      /\ after.realizedPnl = agent.realizedPnl - RoundTripFees(p)
                      /\ after.portfolio.balance =
                            agent.portfolio.balance + p.size - RoundTripFees(p)]_vars

----------------------------------------------------------------------------
(* Claims about initialization (SpecInit) *)

\* initialize reaches setBots(liveCorrectedBots) in this step
InitCompletes == init.pc \in {"saved", "sync"} /\ init'.pc = "done" /\ bots' # <<>>

----------------------------------------------------------------------------
(* Claims about the order of the agents in a turn tick (SpecPause) *)

\* invocation t goes on from the agent at index i to index j in this step
MovesOn(t, i, j) ==
    /\ turn[t].pc \in {"await", "exec"}
    /\ turn[t].idx = i
    /\ turn'[t].idx = j
    /\ i # j

\* C25: a turn tick takes the agents in list order, one at a time: it starts
\* with the first agent that is not paused; it leaves an agent only in the
\* step that writes the agent's TurnLog (with the agent's flag isLoading
\* cleared), and the agent it then asks the provider for is the next one in
\* the list that is not paused.
C25_AgentsInListOrder ==
    [][\A t \in TurnIds :
          /\ (turn[t].pc = "idle" /\ turn'[t].pc # "idle") =>
                /\ \A n \in 1..(turn'[t].idx - 1) : turn'[t].snap[n].isPaused
                /\ turn'[t].pc = "await" =>
                      ~turn'[t].snap[turn'[t].idx].isPaused
          /\ \A i \in 1..Len(turn[t].snap) : \A j \in 1..(Len(turn[t].snap) + 1) :
                MovesOn(t, i, j) =>
                   LET id == turn[t].snap[i].id
                       written == bots'[BotIndex(bots', id)]
                   IN /\ j > i
                      /\ \A n \in (i + 1)..(j - 1) : turn[t].snap[n].isPaused
                      /\ turn'[t].pc = (IF j <= Len(turn[t].snap) THEN "await" ELSE "done")
                      /\ j <= Len(turn[t].snap) => ~turn[t].snap[j].isPaused
                      /\ HasBot(bots', id)
                      /\ ~written.isLoading
                      /\ written.botLogs # <<>>
                      /\ written.botLogs[1].turn = t
                      /\ written.botLogs[1].decisions = turn'[t].decisions
                      /\ written.botLogs[1].notes = turn'[t].notes
                      /\ Len(written.botLogs) =
                            Len(turn[t].snap[i].botLogs) + 1]_vars

\* C25 witness: the tick is waiting for the provider's answer for the second
\* agent; the first agent's TurnLog of this tick, with the notes of an executed
\* decision, is written and the first agent is no longer loading.
C25_Witness ==
    \E t \in TurnIds :
       /\ turn[t].pc = "await"
       /\ turn[t].idx = 2
       /\ ~turn[t].snap[1].isPaused
       /\ bots[1].botLogs # <<>>
       /\ bots[1].botLogs[1].turn = t
       /\ bots[1].botLogs[1].notes # <<>>
       /\ ~bots[1].isLoading
       /\ bots[2].isLoading

----------------------------------------------------------------------------
(* Claims about the writes of the cooldown map (SpecFrame) *)

\* the step submits one order, the venue takes it, and it is the reduce-only
\* market order that closes a position of agent `bot` on symbol s
ClosesPosition(bot, s) ==
    /\ Len(venueCalls') = Len(venueCalls) + 1
    /\ LET c == venueCalls'[Len(venueCalls')].call
       IN /\ c.fn = "placeOrder"
          /\ c.type = "MARKET"
          /\ c.reduceOnly
          /\ c.ok
          /\ c.bot = bot.id
          /\ c.symbol = s
          /\ \E p \in bot.portfolio.positions : p.symbol = s

\* C26: a step changes the cooldown maps only by setting, for the agent whose
\* turn it is, the entry of one symbol to now + 30 minutes, and only when the
\* step has submitted a close order for a position on that symbol that the
\* venue took.  Every other step (a close the venue rejects, "already gone"
\* included, a close of an absent position, an open, the validation pass, the
\* steps of a refresh tick) leaves the maps as they are.
C26_CooldownOnlyOnClose ==
    [][cooldowns' # cooldowns =>
          \E t \in TurnIds : \E s \in Symbols :
             /\ turn[t].pc = "exec"
             /\ ClosesPosition(CurrentBot(t), s)
             /\ cooldowns' = [cooldowns EXCEPT
                                 ![CurrentBot(t).symbolCooldowns][s] = now + SYMBOL_COOLDOWN_MS]]_vars

\* C26 witness: the venue answered a first close order with "already gone" and
\* took the second, an open was validated under the entry-free map and a
\* refresh tick has completed; the BTCUSDT entry stands at now + 30.
C26_Witness ==
    /\ Len(venueCalls) = 2
    /\ \A n \in {1, 2} :
          /\ venueCalls[n].call.type = "MARKET"
          /\ venueCalls[n].call.reduceOnly
    /\ ~venueCalls[1].call.ok
    /\ venueCalls[1].cooldownEnd = 0
    /\ venueCalls[2].call.ok
    /\ venueCalls[2].cooldownEnd = 0
    /\ \E r \in RefreshIds : refresh[r].pc = "done" /\ refresh[r].failed = {}
    /\ cooldowns[1] = [NoCooldowns EXCEPT !["BTCUSDT"] = now + SYMBOL_COOLDOWN_MS]

----------------------------------------------------------------------------
(* Claims about the order of the venue calls of an open (SpecLegs) *)

\* the places in the call history of the calls made for decision i of the
\* current bot of invocation t
IndicesOf(t, i) ==
    {n \in 1..Len(venueCalls) :
        /\ venueCalls[n].turn = t
        /\ venueCalls[n].call.bot = CurrentBot(t).id
        /\ venueCalls[n].call.i = i}

IsProtective(c) == c.call.type \in {"STOP_MARKET", "TAKE_PROFIT_MARKET"}

\* C27: the calls of one live directional decision are consecutive in the
\* call history and begin with setLeverage; the opening market order, when
\* there is one, is the second, and protective orders come only after an
\* opening order that the venue took.  When setLeverage is rejected it is the
\* decision's only call, when the opening order is rejected the two are its
\* only calls, and the decision has an error note and no success note.  Once
\* the turn has gone through the accepted list, every accepted decision has
\* its setLeverage call, whatever happened to the decisions before it.
C27_OpenCallOrder ==
    \A t \in TurnIds : turn[t].pc = "exec" =>
        /\ \A i \in 1..Len(turn[t].decisions) :
              LET ns == IndicesOf(t, i) IN
              (IsDirectional(turn[t].decisions[i]) /\ ns # {}) =>
                 LET first == CHOOSE n \in ns : \A m \in ns : n <= m
                     failed == {n \in ns : ~venueCalls[n].call.ok /\ ~IsProtective(venueCalls[n])}
                 IN /\ ns = first..(first + Cardinality(ns) - 1)
                    /\ venueCalls[first].call.fn = "setLeverage"
                    /\ \A n \in ns \ {first} : venueCalls[n].call.fn = "placeOrder"
                    /\ \A n \in ns : IsOpeningOrder(venueCalls[n]) => n = first + 1
                    /\ \A n \in ns : IsProtective(venueCalls[n]) =>
                          /\ n > first + 1
                          /\ IsOpeningOrder(venueCalls[first + 1])
                          /\ venueCalls[first + 1].call.ok
                    /\ \A n \in failed :
                          /\ \A m \in ns : m <= n
                          /\ \E note \in NotesOf(t, i) : note.kind = "EXEC_ERROR"
                          /\ ~\E note \in NotesOf(t, i) :
                                note.kind \in {"SUCCESS_OPEN", "SUCCESS_SL", "SUCCESS_TP"}
        /\ Executed(t) =>
              \A n \in 1..Len(turn[t].validated) :
                 \E m \in IndicesOf(t, turn[t].validated[n].i) :
                    venueCalls[m].call.fn = "setLeverage"

\* C27 witness: the opening order of the first decision was rejected after its
\* setLeverage call, nothing else was sent for it, and the second decision
\* went through setLeverage, the opening order and a stop-loss order.
C27_Witness ==
    /\ Executed(1)
    /\ Len(turn[1].validated) = 2
    /\ Cardinality(IndicesOf(1, 1)) = 2
    /\ \E n \in IndicesOf(1, 1) : IsOpeningOrder(venueCalls[n]) /\ ~venueCalls[n].call.ok
    /\ \E note \in NotesOf(1, 1) : note.kind = "EXEC_ERROR"
    /\ \E n \in IndicesOf(1, 2) : venueCalls[n].call.type = "STOP_MARKET"
    /\ \E note \in NotesOf(1, 2) : note.kind = "SUCCESS_OPEN"

----------------------------------------------------------------------------
(* Claims about an order quantity of zero (SpecTurn) *)

\* decision i of the current bot of invocation t got as far as the quantity:
\* its setLeverage call was taken, and the quantity computed from the trade
\* size and leverage of that call and the price of the symbol is zero
QuantityIsZero(t, i) ==
    \E c \in CallsOf(t, i) :
       /\ c.call.fn = "setLeverage"
       /\ c.call.ok
       /\ getAdjustedQuantity(c.call.symbol, c.call.size * c.call.leverage,
                              turn[t].mk[c.call.symbol]) = 0

\* C28: for a live open whose truncated quantity is zero no order is placed
\* (no market, stop-loss or take-profit order), a warning note and no success
\* note is recorded, and once the turn has gone through the accepted list
\* every accepted open after it has its note too.
C28_ZeroQuantityAborts ==
    \A t \in TurnIds : turn[t].pc = "exec" =>
        \A i \in 1..Len(turn[t].decisions) :
           QuantityIsZero(t, i) =>
              /\ \A c \in CallsOf(t, i) : c.call.fn # "placeOrder"
              /\ \E note \in NotesOf(t, i) : note.kind = "WARN_ZERO_QTY"
              /\ \A note \in NotesOf(t, i) : note.kind \in {"WARN_ZERO_QTY", "NOTE_SIZE", "NOTE_LEVERAGE"}
              /\ Executed(t) =>
                    \A n \in 1..Len(turn[t].validated) :
                       LET v == turn[t].validated[n] IN
                       ( /\ v.i > i
                         /\ IsDirectional(v.decision)
                         /\ v.decision.size # 0
                         /\ HasMarket(turn[t].mk, v.decision.symbol) ) =>
                          /\ NotesOf(t, v.i) # {}
                          /\ CurrentBot(t).portfolio.balance >= MINIMUM_TRADE_SIZE_USD =>
                                CallsOf(t, v.i) # {}

\* C28 witness: with a balance of 80 the first open (80 at leverage 1 on BTCUSDT
\* at 90000, 0.0008 units) was dropped with the warning after its setLeverage
\* call, and the opening order of the second decision was taken.
C28_Witness ==
    /\ Executed(1)
    /\ QuantityIsZero(1, 1)
    /\ Cardinality(CallsOf(1, 1)) = 1
    /\ \E note \in NotesOf(1, 1) : note.kind = "WARN_ZERO_QTY"
    /\ \E c \in CallsOf(1, 2) : IsOpeningOrder(c) /\ c.call.ok

----------------------------------------------------------------------------
(* Claims about the side of the orders (SpecSides) *)

BuySide(type) == IF type = Long THEN "BUY" ELSE "SELL"

SellSide(type) == IF type = Long THEN "SELL" ELSE "BUY"

\* C29: of the orders of a decision to open, the market order is BUY for LONG
\* and SELL for SHORT and every other order is reduce-only and on the other
\* side; the order of a decision to close is a reduce-only market order on the
\* side opposite to the position it names: SELL for a long, BUY for a short.
C29_OrderSides ==
    \A t \in TurnIds : turn[t].pc = "exec" =>
        \A i \in 1..Len(turn[t].decisions) :
           \A c \in CallsOf(t, i) : c.call.fn = "placeOrder" =>
              LET d == turn[t].decisions[i] IN
              IF IsDirectional(d)
              THEN /\ c.call.symbol = d.symbol
                   /\ IF c.call.type = "MARKET"
                      THEN c.call.side = BuySide(d.action) /\ ~c.call.reduceOnly
                      ELSE /\ c.call.type \in {"STOP_MARKET", "TAKE_PROFIT_MARKET"}
                           /\ c.call.side = SellSide(d.action)
                           /\ c.call.reduceOnly
              ELSE /\ d.action = Close
                   /\ c.call.type = "MARKET"
                   /\ c.call.reduceOnly
                   /\ \E p \in CurrentBot(t).portfolio.positions :
                         /\ p.id = d.closePositionId
                         /\ p.symbol = c.call.symbol
                         /\ c.call.side = SellSide(p.type)

\* C29 witness: the short position d2 was closed with a BUY, and the long
\* opened after it with a BUY has its stop-loss and take-profit as SELL orders.
C29_Witness ==
    /\ Executed(1)
    /\ Len(turn[1].decisions) = 2
    /\ turn[1].decisions[1].closePositionId = "d2"
    /\ \E c \in CallsOf(1, 1) : c.call.side = "BUY" /\ c.call.reduceOnly /\ c.call.ok
    /\ turn[1].decisions[2].action = Long
    /\ \E c \in CallsOf(1, 2) : IsOpeningOrder(c) /\ c.call.side = "BUY" /\ c.call.ok
    /\ \E c \in CallsOf(1, 2) : c.call.type = "STOP_MARKET" /\ c.call.side = "SELL"
    /\ \E c \in CallsOf(1, 2) : c.call.type = "TAKE_PROFIT_MARKET" /\ c.call.side = "SELL"

----------------------------------------------------------------------------
(* Claims about the order kept by validation (SpecTurn) *)

\* the step of invocation t in which the decisions arrive and are validated
ValidationStep(t) == turn[t].pc = "await" /\ turn'[t].pc = "exec"

\* C30: after the validation pass the accepted pairs are decisions of the
\* proposed list in their proposed order, each note belongs to a proposed
\* decision and the notes follow the order of their decisions, and the pass
\* leaves the agent's portfolio, its cooldowns, the venue's account and the
\* calls made so far as they were.
C30_ValidationKeepsOrder ==
    [][\A t \in TurnIds : ValidationStep(t) =>
          LET ds == turn'[t].decisions
              vs == turn'[t].validated
              ns == turn'[t].notes
          IN /\ \A n \in 1..Len(vs) :
                   /\ vs[n].i \in 1..Len(ds)
                   /\ vs[n].decision = ds[vs[n].i]
             /\ \A n, m \in 1..Len(vs) : n < m => vs[n].i < vs[m].i
             /\ \A n \in 1..Len(ns) : ns[n].i \in 1..Len(ds)
             /\ \A n, m \in 1..Len(ns) : n < m => ns[n].i <= ns[m].i
             /\ bots' = bots
             /\ cooldowns' = cooldowns
             /\ venue' = venue
             /\ venueCalls' = venueCalls]_vars

\* C30 witness: two different decisions were both accepted with their leverage
\* brought down to the limit, the note of the first before the note of the second.
C30_Witness ==
    /\ Validated(1)
    /\ Len(turn[1].decisions) = 2
    /\ Len(turn[1].validated) = 2
    /\ turn[1].validated[1].decision # turn[1].validated[2].decision
    /\ Len(turn[1].notes) = 2
    /\ turn[1].notes[1].i = 1
    /\ turn[1].notes[2].i = 2

----------------------------------------------------------------------------
(* Claims about the bound of the turn log (SpecLog) *)

\* invocation t writes the log of its current agent back in this step
LogWritten(t) ==
    /\ turn[t].pc \in {"await", "exec"}
    /\ \/ turn'[t].pc = "done"
       \/ turn'[t].pc = "await" /\ turn'[t].idx # turn[t].idx

NewestFirst(log) ==
    \A n, m \in 1..Len(log) : n < m => log[n].timestamp >= log[m].timestamp

\* C31: in every state every agent's turn log has at most 50 entries, newest
\* first; a write-back puts the entry of the turn in front of the log the turn
\* holds, and when that log has 50 entries its first 49 follow in their order
\* and its last, the oldest, is gone.
C31_TurnLogBounded ==
    /\ [](\A b \in 1..Len(bots) :
             /\ Len(bots[b].botLogs) <= 50
             /\ NewestFirst(bots[b].botLogs))
    /\ [][\A t \in TurnIds : LogWritten(t) =>
             LET held == CurrentBot(t).botLogs
                 log == bots'[BotIndex(bots', CurrentBot(t).id)].botLogs
             IN /\ log[1].turn = t
                /\ log[1].timestamp = now
                /\ Len(held) < 50 => Tail(log) = held
                /\ Len(held) = 50 =>
                      /\ Len(log) = 50
                      /\ \A n \in 1..49 : log[n + 1] = held[n]
                      /\ \A n \in 1..50 : log[n] # held[50]]_vars

\* C31 witness: the log is full, its newest entry is the second one written
\* since the start, which pushed the oldest of the earlier entries out.
C31_Witness ==
    /\ Len(bots[1].botLogs) = 50
    /\ NewEntries(bots[1].botLogs) = 2
    /\ bots[1].botLogs[1].timestamp > bots[1].botLogs[2].timestamp
    /\ bots[1].botLogs[50].timestamp = 0 - 48

----------------------------------------------------------------------------
(* Claims about the bound of the value history (SpecHistory) *)

\* no point is older than the point before it
InTimeOrder(h) ==
    \A n \in 1..(Len(h) - 1) : h[n].timestamp <= h[n + 1].timestamp

\* C32: in every state every agent's value history has at most 300 points in
\* time order; a refresh tick that completes gives every agent the history
\* the tick holds for it with one more point at the end, stamped with the time
\* and carrying the agent's new total value, and when the held history has 300
\* points its first, the oldest, is gone and the other 299 keep their order.
C32_ValueHistoryBounded ==
    /\ [](\A b \in 1..Len(bots) :
             /\ Len(bots[b].valueHistory) <= 300
             /\ InTimeOrder(bots[b].valueHistory))
    /\ [][\A r \in RefreshIds : RefreshCompletes(r) =>
             \A n \in 1..Len(refresh[r].snap) :
                LET held == refresh[r].snap[n].valueHistory
                    h == bots'[n].valueHistory
                IN /\ Len(h) > 0
                   /\ h[Len(h)] = Point(now, bots'[n].portfolio.totalValue)
                   /\ Len(held) < 300 =>
                         /\ Len(h) = Len(held) + 1
                         /\ \A k \in 1..Len(held) : h[k] = held[k]
                   /\ Len(held) = 300 =>
                         /\ Len(h) = 300
                         /\ \A k \in 1..299 : h[k] = held[k + 1]
                         /\ h[1].timestamp > held[1].timestamp]_vars

\* C32 witness: both ticks have completed one after the other at different
\* times; the simulated agent's history is full, ends with the two new points
\* and has lost the oldest of the earlier ones.
C32_Witness ==
    /\ \A r \in {1, 2} : refresh[r].pc = "done" /\ refresh[r].failed = {}
    /\ Len(bots[2].valueHistory) = 300
    /\ bots[2].valueHistory[1].timestamp = 0 - 298
    /\ bots[2].valueHistory[299].timestamp = 20
    /\ bots[2].valueHistory[300].timestamp = 40
    /\ bots[2].valueHistory[300].value = bots[2].portfolio.totalValue
    /\ bots[2].valueHistory[299].value # bots[2].valueHistory[300].value

----------------------------------------------------------------------------
(* Claims about the start of the scheduler (SpecBoot) *)

\* the step in which fetchBotConfigs answers with no active agent
NoAgentConfigured == init.pc = "configs" /\ init'.pc = "done"

\* an invocation of runTradingTurn or of updatePortfolios starts in this step
TickFires ==
    \/ \E t \in TurnIds : turn[t].pc = "idle" /\ turn'[t].pc # "idle"
    \/ \E r \in RefreshIds : refresh[r].pc = "idle" /\ refresh'[r].pc # "idle"

\* C33: when the config store returns no active agent, initialization ends in
\* that step with an empty agent list and loading over; while the list is
\* empty or loading is in progress the intervals are not armed and no
\* invocation of either callback has started, and no step that ends in such a
\* state starts one.
C33_NoTicksWithoutAgents ==
    /\ [][NoAgentConfigured =>
             /\ bots' = <<>>
             /\ ~isLoading'
             /\ ~scheduled']_vars
    /\ []((Len(bots) = 0 \/ isLoading) =>
             /\ ~scheduled
             /\ \A t \in TurnIds : turn[t].pc = "idle"
             /\ \A r \in RefreshIds : refresh[r].pc = "idle")
    /\ [][(Len(bots') = 0 \/ isLoading') => ~TickFires]_vars

\* C33 witness: the exchange information arrived, the config store answered
\* with no agent, and the engine, not paused, is idle with an empty list.
C33_Witness ==
    /\ init.pc = "done"
    /\ init.precisions
    /\ init.configs = <<>>
    /\ init.initialBots = <<>>
    /\ bots = <<>>
    /\ ~isLoading
    /\ ~isGloballyPaused
    /\ ~scheduled

----------------------------------------------------------------------------
(* Claims about the balance spent by the opens of one turn (SpecTurn) *)

\* the sum of the trade sizes of the opening orders among the first n venue
\* calls that invocation t made for its current bot
RECURSIVE OpenedSize(_, _)
OpenedSize(t, n) ==
    IF n = 0 THEN 0
    ELSE OpenedSize(t, n - 1)
         + ( IF /\ venueCalls[n].turn = t
                /\ venueCalls[n].call.bot = CurrentBot(t).id
                /\ IsOpeningOrder(venueCalls[n])
             THEN venueCalls[n].call.size ELSE 0 )

\* C34 (as claimed): within one live decision turn of one agent the trade
\* sizes of the opening orders submitted add up to no more than the balance
\* the agent had at the start of the turn.
C34_OpensWithinBalance ==
    \A t \in TurnIds : turn[t].pc = "exec" =>
        OpenedSize(t, Len(venueCalls)) <= CurrentBot(t).portfolio.balance

----------------------------------------------------------------------------
(* Claims about what the write-back of a turn changes (SpecSerial) *)

\* C35 (as claimed): the write-back at the end of an agent's turn leaves the
\* agent's portfolio, order history, realized PnL and value history as they
\* are in the list at that moment, whatever a refresh tick wrote there while
\* the turn was in flight.
C35_WriteBackKeepsRefresh ==
    [][\A t \in TurnIds : LogWritten(t) =>
          LET id == CurrentBot(t).id
              before == bots[BotIndex(bots, id)]
              after == bots'[BotIndex(bots', id)]
          IN /\ after.portfolio = before.portfolio
             /\ after.orders = before.orders
             /\ after.realizedPnl = before.realizedPnl
             /\ after.valueHistory = before.valueHistory]_vars

----------------------------------------------------------------------------
(* Claims about the loading flag of an agent (SpecSerial) *)

\* C36 (as claimed): whenever no decision turn is in flight, no agent has its
\* loading flag set.
C36_LoadingFlagCleared ==
    (\A t \in TurnIds : ~InFlight(t)) => \A b \in 1..Len(bots) : ~bots[b].isLoading

----------------------------------------------------------------------------
(* Claims about a reset and the ticks in flight (SpecRefresh) *)

\* the bot at place n of the list was reset after refresh tick r had started:
\* the tick holds the bot with the symbolCooldowns object it had before
ResetSince(r, n) ==
    /\ reset.last = "reset"
    /\ bots[n].id = reset.id
    /\ n <= Len(refresh[r].snap)
    /\ refresh[r].snap[n].id = bots[n].id
    /\ refresh[r].snap[n].symbolCooldowns # bots[n].symbolCooldowns

\* C37 (as claimed): a refresh tick that was in flight when a simulated agent
\* was reset does not write the agent's state of before the reset back: when
\* it completes, the agent keeps the balance, positions, orders, logs and
\* cooldowns object it has.
C37_ResetSurvivesTicks ==
    [][\A r \in RefreshIds : RefreshCompletes(r) =>
          \A n \in 1..Len(bots) :
             (ResetSince(r, n) /\ bots[n].tradingMode = Paper) =>
                /\ bots'[n].portfolio.balance = bots[n].portfolio.balance
                /\ bots'[n].portfolio.positions = bots[n].portfolio.positions
                /\ bots'[n].orders = bots[n].orders
                /\ bots'[n].botLogs = bots[n].botLogs
                /\ bots'[n].symbolCooldowns = bots[n].symbolCooldowns]_vars

----------------------------------------------------------------------------
(* Claims about the agent list after initialization (SpecBoot) *)

\* the places of the agent id in a list
PlacesOf(bs, id) == {m \in 1..Len(bs) : bs[m].id = id}

\* C38 (as claimed): when initialization completes with an agent list, every
\* agent of the configuration is in the list exactly once with the trading
\* mode and the pause flag of its configuration, and every agent of the list
\* has a configuration.
C38_ActiveAgentsListed ==
    [][InitCompletes =>
          /\ \A n \in 1..Len(init'.configs) :
                LET c == init'.configs[n] IN
                /\ Cardinality(PlacesOf(bots', c.id)) = 1
                /\ \A m \in PlacesOf(bots', c.id) :
                      /\ bots'[m].tradingMode = c.mode
                      /\ bots'[m].isPaused = c.isPaused
          /\ \A m \in 1..Len(bots') : HasConfig(init'.configs, bots'[m].id)]_vars

----------------------------------------------------------------------------
(* Claims about the notes of accepted opens (SpecTurn) *)

\* C39 (as claimed): once a live turn has gone through its accepted list,
\* every accepted LONG or SHORT decision has at least one note in the turn's
\* note list.
C39_AcceptedOpenHasNote ==
    \A t \in TurnIds : Executed(t) =>
        \A i \in 1..Len(turn[t].decisions) :
           (Accepted(t, i) /\ IsDirectional(turn[t].decisions[i])) =>
              NotesOf(t, i) # {}

----------------------------------------------------------------------------
(* Claims about the progress of the turns (SpecLive) *)

\* the agent at place n of the list gets the log entry of its turn in this
\* step: the write-back of invocation t puts the entry in front of its log
TurnLogged(t, n) ==
    /\ LogWritten(t)
    /\ CurrentBot(t).id = bots[n].id
    /\ bots'[n].botLogs # <<>>
    /\ bots'[n].botLogs[1].turn = t
    /\ bots'[n].botLogs[1].decisions = turn[t].decisions
    /\ bots'[n].botLogs[1].notes = turn[t].notes

\* C40: with the engine not paused, a non-empty agent list and every call
\* answered, every agent whose pause flag is clear gets the log entry of a
\* decision turn again and again.
C40_EveryAgentGetsTurns ==
    \A n \in 1..2 :
       ~bots[n].isPaused => []<><<TurnLogged(1, n)>>_vars

\* C40 witness: both agents are unpaused and both logs have been filled to the
\* bound by the turns; the first agent's newest entry carries notes, the
\* second's the provider's error.
C40_Witness ==
    /\ \A n \in 1..2 : ~bots[n].isPaused /\ Len(bots[n].botLogs) = MaxBotLogs
    /\ bots[1].botLogs[1].notes # <<>>
    /\ bots[2].botLogs[1].error
    /\ turn[1].pc = "idle"

====
